---- MODULE Spec2Model ----
(***************************************************************************)
(* Model of the speech-to-speech gateway session of src/index.js: one      *)
(* client connection (handleClientConnection), the backend connections it  *)
(* opens, the downsample / frame / flush pipeline and the teardown.        *)
(***************************************************************************)
EXTENDS Integers, Sequences, FiniteSets, TLC

(* ------------------------------------------------------------------ *)
(* Program constants                                                    *)
(* ------------------------------------------------------------------ *)

\* samples of one 20 ms frame at 8 kHz (index.js:127)
FrameSize == 160

\* silence frames sent after a non-empty flush (index.js:180)
silenceFrames == 5

\* 24 kHz -> 8 kHz: one output sample per three input samples (index.js:79)
DownRatio == 3

\* 8 kHz -> 24 kHz: three output samples per input sample (index.js:80)
UpRatio == 3

(* ------------------------------------------------------------------ *)
(* Bounds of the model                                                  *)
(* ------------------------------------------------------------------ *)

\* messages delivered to the session, by the client and by the backend
MaxMsgs == 3

\* backend connections the session creates
MaxConns == 2

\* sizes, in 24 kHz samples, of the audio deltas the backend sends:
\* 0, 65*3, 95*3+1 and 255*3 input samples (255 = 160 + 95)
DeltaSizes == {0, 195, 286, 765}

\* descriptors in the list of tools the agent API returns
MaxApiTools == 2

\* events delivered to the two sessions of the two-session model
MaxTwoMsgs == 3

\* sizes, in 8 kHz samples, of the audio payloads the client sends
ClientAudioSizes == {0, 160}

\* session ids the client supplies in init
Uuids == {"u1", "u2"}

NULL == "null"

VARIABLES
    sessionUuid,      \* let sessionUuid           (index.js:96)
    callerInfo,       \* let callerInfo            (index.js:97)
    audioBuffer8k,    \* let audioBuffer8k         (index.js:99)
    ws,               \* let ws: index into conns, 0 = null (index.js:100)
    isInitialized,    \* let isInitialized         (index.js:101)
    clientState,      \* clientWs.readyState
    conns,            \* readyState of every backend connection created
    pendingInits,     \* init handlers suspended on await fetchCallerInfo
    downPhase,        \* globalDownsampler: input samples carried over
    srcPos,           \* 24 kHz samples the backend has sent so far
    clientOut,        \* messages sent on clientWs, in order
    backendOut,       \* messages sent on backend connections, in order
    produced,         \* history: downsampled samples appended to the buffer
    discarded,        \* history: samples cleared from the buffer unsent
    runFed,           \* history: samples fed since the buffer was last cleared
    runFrames,        \* history: frames sent by the framer since then
    nMsgs,            \* messages delivered, by the client and the backend
    lastEvent,        \* history: the handler that ran last
    agentEnv,         \* process.env.AGENT_ID and apiClient.isConfigured()
    apiToolHandlers,  \* const apiToolHandlers = new Map()  (loadTools.js)
    opens,            \* the runs of the ws.on("open") handler and their stage
    toolCalls,        \* the function calls awaiting their handler's result
    probe,            \* inputs and results of the registry functions
    sess,             \* the sessions of two client connections
    downUsers         \* history: the sessions that fed globalDownsampler

vars == <<sessionUuid, callerInfo, audioBuffer8k, ws, isInitialized,
          clientState, conns, pendingInits, downPhase, srcPos, clientOut,
          backendOut, produced, discarded, runFed, runFrames, nMsgs, lastEvent,
          agentEnv, apiToolHandlers, opens, toolCalls, probe, sess, downUsers>>

\* the variables the handlers of one session without agent leave alone
extVars == <<agentEnv, apiToolHandlers, opens, toolCalls, probe, sess,
             downUsers>>

(* ------------------------------------------------------------------ *)
(* Audio pipeline                                                       *)
(* ------------------------------------------------------------------ *)

\* Int16Array.from(x): a number wrapped to 16 bits, two's complement
ToInt16(x) == ((x + 32768) % 65536) - 32768

\* the 24 kHz samples of one delta: the backend's stream is numbered 1, 2, ...
InputChunk(pos, n) == [i \in 1..n |-> pos + i]

\* globalDownsampler.full(inputSamples): the stateful 24 kHz -> 8 kHz
\* converter keeps every DownRatio-th sample of the stream; phase is the
\* number of input samples consumed since the last output sample.
Downsample(phase, input) ==
    [k \in 1..((phase + Len(input)) \div DownRatio) |->
        input[DownRatio * k - phase]]

\* a converter that starts every call afresh
DownPhaseReset(phase, input) == 0

\* the state of globalDownsampler after full(input)
DownPhaseAfter(phase, input) == (phase + Len(input)) % DownRatio

\* Buffer.from(Int16Array.from(frame).buffer): the frame as 16-bit samples
EncodeFrame(frame) == [i \in 1..Len(frame) |-> ToInt16(frame[i])]


\* the loop condition with > for >=
HasFrameStrict(buf) == Len(buf) > FrameSize

\* while (audioBuffer8k.length >= 160)
HasFrame(buf) == Len(buf) >= FrameSize

\* the frames the while loop slices off the front of the buffer
RECURSIVE ExtractFrames(_)
ExtractFrames(buf) ==
    IF HasFrame(buf)
    THEN <<EncodeFrame(SubSeq(buf, 1, FrameSize))>>
         \o ExtractFrames(SubSeq(buf, FrameSize + 1, Len(buf)))
    ELSE <<>>

\* the loop slicing from FrameSize + 1 instead of FrameSize
RECURSIVE RemainderSkip(_)
RemainderSkip(buf) ==
    IF HasFrame(buf)
    THEN RemainderSkip(SubSeq(buf, FrameSize + 2, Len(buf)))
    ELSE buf

\* what the while loop leaves in the buffer
RECURSIVE Remainder(_)
Remainder(buf) ==
    IF HasFrame(buf)
    THEN Remainder(SubSeq(buf, FrameSize + 1, Len(buf)))
    ELSE buf

\* processOpenAIAudioChunk: the buffer after the downsampled samples of one
\* delta are appended and the complete frames are sliced off, and the frames
processOpenAIAudioChunk(buf, phase, input) ==
    LET acc == buf \o Downsample(phase, input)
    IN  [frames |-> ExtractFrames(acc), buffer |-> Remainder(acc)]

\* the remainder sent as it is, without padding
PaddedFrameUnpadded(rest) == [i \in 1..Len(rest) |-> ToInt16(rest[i])]

\* new Int16Array(160) with the remainder set at its start
PaddedFrame(rest) ==
    [i \in 1..FrameSize |-> IF i <= Len(rest) THEN ToInt16(rest[i]) ELSE 0]

\* new Int16Array(160): all zeros
SilenceFrame == [i \in 1..FrameSize |-> 0]

\* a flush without the test for an empty buffer
FlushFramesAlways(buf) ==
    ExtractFrames(buf)
    \o (IF Len(Remainder(buf)) > 0
        THEN <<PaddedFrame(Remainder(buf))>> ELSE <<>>)
    \o [i \in 1..silenceFrames |-> SilenceFrame]

\* a flush that sends one silence frame fewer
FlushFramesShort(buf) ==
    IF Len(buf) > 0
    THEN ExtractFrames(buf)
         \o (IF Len(Remainder(buf)) > 0
             THEN <<PaddedFrame(Remainder(buf))>> ELSE <<>>)
         \o [i \in 1..(silenceFrames - 1) |-> SilenceFrame]
    ELSE <<>>

\* a flush that only clears the buffer
FlushFramesNone(buf) == <<>>

\* flushAudioBuffer: the frames a flush hands to clientWs.send, in order
FlushFrames(buf) ==
    IF Len(buf) > 0
    THEN ExtractFrames(buf)
         \o (IF Len(Remainder(buf)) > 0
             THEN <<PaddedFrame(Remainder(buf))>> ELSE <<>>)
         \o [i \in 1..silenceFrames |-> SilenceFrame]
    ELSE <<>>

\* the "audio" message carrying one frame; via names the path that sent it
AudioMsg(frame, via) == [type |-> "audio", samples |-> frame, via |-> via]

AudioMsgs(frames, via) == [i \in 1..Len(frames) |-> AudioMsg(frames[i], via)]

\* a client message without audio
PlainMsg(type) == [type |-> type, samples |-> <<>>, via |-> "handler"]

\* a send that delivers whatever the state of the connection
ClientSendAnyState(out, state, msgs) == out \o msgs

\* a send that puts its messages in front of the stream
ClientSendFront(out, state, msgs) == IF state = "OPEN" THEN msgs \o out ELSE out

\* clientWs.send under if (clientWs.readyState === WebSocket.OPEN); a send on
\* a connection that is not open delivers nothing
ClientSend(out, state, msgs) == IF state = "OPEN" THEN out \o msgs ELSE out

\* ws.send on the session's current backend connection
BackendSend(out, cs, w, msg) ==
    IF w # 0 /\ cs[w] = "OPEN" THEN Append(out, msg) ELSE out

(* ------------------------------------------------------------------ *)
(* Session state                                                        *)
(* ------------------------------------------------------------------ *)

\* callerInfo = null
NoCallerInfo == [isNull |-> TRUE]

\* the record fetchCallerInfo returns when the lookup fails
AllNullCaller ==
    [phoneNumber |-> NULL, callerName |-> NULL, callerId |-> NULL,
     channel |-> NULL, context |-> NULL, extension |-> NULL]

\* response.data of a successful lookup for session u
CallerRecord(u) ==
    [phoneNumber |-> "tel-" \o u, callerName |-> "name-" \o u,
     callerId |-> "id-" \o u, channel |-> "SIP", context |-> "from-external",
     extension |-> "100"]

\* a lookup whose failure leaves no record
fetchCallerInfoNull(u, ok) == IF ok THEN CallerRecord(u) ELSE NoCallerInfo

\* fetchCallerInfo(sessionUuid): the looked-up record, or the all-null one
fetchCallerInfo(u, ok) == IF ok THEN CallerRecord(u) ELSE AllNullCaller

\* cleanup that leaves the backend connection alone
CleanupConnsKeep(cs, w) == cs

\* cleanup that closes the backend connection whatever its state
CleanupConnsAlways(cs, w) ==
    IF w # 0 THEN [cs EXCEPT ![w] = "CLOSING"] ELSE cs

\* cleanup: if (ws && ws.readyState === WebSocket.OPEN) ws.close()
CleanupConns(cs, w) ==
    IF w # 0 /\ cs[w] = "OPEN" THEN [cs EXCEPT ![w] = "CLOSING"] ELSE cs

\* cleanup that leaves the client connection alone
CleanupClientKeep(state) == state

\* cleanup: if (clientWs && clientWs.readyState === WebSocket.OPEN) close()
CleanupClient(state) == IF state = "OPEN" THEN "CLOSING" ELSE state

\* connections on which messages still arrive: open, or closed by this side
\* with the close handshake not yet finished
Receiving(state) == state \in {"OPEN", "CLOSING"}

(* ------------------------------------------------------------------ *)
(* Tool registry and dispatcher (loadTools.js)                          *)
(* ------------------------------------------------------------------ *)

\* the tool definition loadToolsFromDir builds from the file name.js of dir
LocalToolDefinition(dir, name) ==
    [type |-> "function", name |-> name, description |-> dir \o "/" \o name]

\* loadToolsFromDir(dirPath): one definition per file, in directory order
loadToolsFromDir(dir, files) ==
    [i \in 1..Len(files) |-> LocalToolDefinition(dir, files[i])]

\* buildApiToolDefinitions(apiTools): the descriptors with a name, without
\* their handler
RECURSIVE buildApiToolDefinitions(_)
buildApiToolDefinitions(apiTools) ==
    IF apiTools = <<>> THEN <<>>
    ELSE LET t == Head(apiTools)
         IN  (IF t.name # ""
              THEN <<[type |-> "function", name |-> t.name,
                      description |-> t.description]>>
              ELSE <<>>)
             \o buildApiToolDefinitions(Tail(apiTools))

\* loadTools(apiTools): the definitions of avr_tools, of tools and of the
\* API, concatenated
loadTools(avrFiles, toolFiles, apiTools) ==
    loadToolsFromDir("avr_tools", avrFiles)
    \o loadToolsFromDir("tools", toolFiles)
    \o buildApiToolDefinitions(apiTools)

\* apiToolHandlers.set(t.name, t.handler) for the descriptors with a name and
\* a handler url, in order: a later descriptor replaces an earlier one
RECURSIVE RegisterApiTools(_, _)
RegisterApiTools(reg, apiTools) ==
    IF apiTools = <<>> THEN reg
    ELSE LET t == Head(apiTools)
         IN  RegisterApiTools(
                 IF t.name # "" /\ t.url # NULL
                 THEN {e \in reg : e.name # t.name}
                      \cup {[name |-> t.name, handler |-> t.url]}
                 ELSE reg,
                 Tail(apiTools))

\* the registry the tools are registered into, left as it is
ClearedRegistryKept(reg) == reg

\* apiToolHandlers.clear()
ClearedRegistry(reg) == {}

\* setApiTools(apiTools): the registry is cleared, then filled
setApiTools(apiTools) ==
    RegisterApiTools(ClearedRegistry(apiToolHandlers), apiTools)

\* apiToolHandlers.has(name)
HasApiHandler(reg, name) == \E e \in reg : e.name = name

\* apiToolHandlers.get(name)
ApiHandler(reg, name) == (CHOOSE e \in reg : e.name = name).handler

\* fs.existsSync(dir/name.js)
FileExists(files, name) == \E i \in 1..Len(files) : files[i] = name

\* the handler of an API tool looked up before the local directories
getToolHandlerApiFirst(name, avrFiles, toolFiles, reg) ==
    IF HasApiHandler(reg, name)
    THEN [kind |-> "remote", from |-> ApiHandler(reg, name)]
    ELSE IF FileExists(avrFiles, name)
    THEN [kind |-> "local", from |-> "avr_tools/" \o name]
    ELSE IF FileExists(toolFiles, name)
    THEN [kind |-> "local", from |-> "tools/" \o name]
    ELSE [kind |-> "notfound", from |-> name]

\* getToolHandler(name): the handler of avr_tools/name.js, else of
\* tools/name.js, else the generic handler of the registered API tool, else
\* an error is thrown
getToolHandler(name, avrFiles, toolFiles, reg) ==
    IF FileExists(avrFiles, name)
    THEN [kind |-> "local", from |-> "avr_tools/" \o name]
    ELSE IF FileExists(toolFiles, name)
    THEN [kind |-> "local", from |-> "tools/" \o name]
    ELSE IF HasApiHandler(reg, name)
    THEN [kind |-> "remote", from |-> ApiHandler(reg, name)]
    ELSE [kind |-> "notfound", from |-> name]

\* the client connections of the two-session model
Sessions == {1, 2}

\* a session of the two-session model after handleClientConnection
NewSession ==
    [audioBuffer8k |-> <<>>, clientOut |-> <<>>, srcPos |-> 0,
     apiTools |-> <<>>, opened |-> FALSE, released |-> FALSE,
     called |-> "", handler |-> [kind |-> "none", from |-> ""]]

\* the registry functions not yet applied
NoProbe ==
    [name |-> "", avrFiles |-> <<>>, toolFiles |-> <<>>, apiTools |-> <<>>,
     handler |-> [kind |-> "none", from |-> ""], tools |-> <<>>,
     applied |-> FALSE]

\* the state after handleClientConnection(clientWs), whatever the environment
InitSession ==
    /\ sessionUuid = NULL
    /\ callerInfo = NoCallerInfo
    /\ audioBuffer8k = <<>>
    /\ ws = 0
    /\ isInitialized = FALSE
    /\ clientState = "OPEN"
    /\ conns = <<>>
    /\ pendingInits = {}
    /\ downPhase = 0
    /\ srcPos = 0
    /\ clientOut = <<>>
    /\ backendOut = <<>>
    /\ produced = <<>>
    /\ discarded = {}
    /\ runFed = 0
    /\ runFrames = 0
    /\ nMsgs = 0
    /\ lastEvent = "start"
    /\ apiToolHandlers = {}
    /\ opens = {}
    /\ toolCalls = {}
    /\ sess = [s \in Sessions |-> NewSession]
    /\ downUsers = {}

\* a gateway started without AGENT_ID
Init ==
    /\ InitSession
    /\ agentEnv = "none"
    /\ probe = NoProbe

\* the variables of the audio pipeline and its history
audioVars == <<audioBuffer8k, downPhase, srcPos, produced, discarded,
               runFed, runFrames>>

\* a flush that sends the whole frames and keeps the remainder buffered
FlushWholeFrames(st) ==
    /\ clientOut' = ClientSend(clientOut, st,
                               AudioMsgs(ExtractFrames(audioBuffer8k), "flush"))
    /\ audioBuffer8k' = Remainder(audioBuffer8k)
    /\ runFed' = 0
    /\ runFrames' = 0
    /\ UNCHANGED <<downPhase, srcPos, produced, discarded>>

\* flushAudioBuffer() as a handler calls it, the client being in state st
Flush(st) ==
    /\ clientOut' = ClientSend(clientOut, st,
                               AudioMsgs(FlushFrames(audioBuffer8k), "flush"))
    /\ audioBuffer8k' = <<>>
    /\ runFed' = 0
    /\ runFrames' = 0
    /\ UNCHANGED <<downPhase, srcPos, produced, discarded>>

\* cleanup() with the connections in states cs and the client in state st
Cleanup(cs, st) ==
    /\ Flush(st)
    /\ sessionUuid' = NULL
    /\ callerInfo' = NoCallerInfo
    /\ isInitialized' = FALSE
    /\ conns' = CleanupConns(cs, ws)
    /\ clientState' = CleanupClient(st)
    /\ UNCHANGED <<ws, pendingInits, backendOut>>

(* ------------------------------------------------------------------ *)
(* Client message handlers: clientWs.on("message")                      *)
(* ------------------------------------------------------------------ *)

\* case "init", up to await fetchCallerInfo(sessionUuid)
ClientInit(u) ==
    /\ Receiving(clientState)
    /\ nMsgs < MaxMsgs
    /\ Len(conns) + Cardinality(pendingInits) < MaxConns
    /\ nMsgs' = nMsgs + 1
    /\ sessionUuid' = u
    /\ pendingInits' = pendingInits \cup {[id |-> nMsgs + 1, uuid |-> u]}
    /\ lastEvent' = "client.init"
    /\ UNCHANGED <<callerInfo, ws, isInitialized, clientState, conns,
                   clientOut, backendOut>>
    /\ UNCHANGED audioVars
    /\ UNCHANGED extVars

\* initializeOpenAIConnection: the open connection, if any, is closed and a
\* new one is created
initializeOpenAIConnection(cs, w) ==
    Append(IF w # 0 /\ cs[w] = "OPEN" THEN [cs EXCEPT ![w] = "CLOSING"] ELSE cs,
           "CONNECTING")

\* case "init", from the resolution of fetchCallerInfo to the break
ClientInitResume(p, ok) ==
    /\ p \in pendingInits
    /\ pendingInits' = pendingInits \ {p}
    /\ callerInfo' = fetchCallerInfo(p.uuid, ok)
    /\ IF ~isInitialized
       THEN /\ conns' = initializeOpenAIConnection(conns, ws)
            /\ ws' = Len(conns) + 1
            /\ isInitialized' = TRUE
            /\ UNCHANGED clientOut
       ELSE /\ clientOut' = ClientSend(clientOut, clientState,
                                       <<PlainMsg("ready")>>)
            /\ UNCHANGED <<conns, ws, isInitialized>>
    /\ lastEvent' = "client.init.resume"
    /\ UNCHANGED <<sessionUuid, clientState, backendOut, nMsgs>>
    /\ UNCHANGED audioVars
    /\ UNCHANGED extVars

\* convert8kTo24k: the upsampled payload, UpRatio samples per sample
convert8kTo24k(n) == n * UpRatio

\* the test without the readyState check
ForwardsAudioAnyState(n, cs, w) == n > 0 /\ w # 0

\* case "audio": if (message.audio && ws && ws.readyState === WebSocket.OPEN)
ForwardsAudio(n, cs, w) == n > 0 /\ w # 0 /\ cs[w] = "OPEN"

\* case "audio" with a payload of n samples
ClientAudio(n) ==
    /\ Receiving(clientState)
    /\ nMsgs < MaxMsgs
    /\ nMsgs' = nMsgs + 1
    /\ backendOut' =
          IF ForwardsAudio(n, conns, ws)
          THEN Append(backendOut,
                      [conn |-> ws, type |-> "input_audio_buffer.append",
                       src |-> nMsgs + 1, len |-> convert8kTo24k(n)])
          ELSE backendOut
    /\ lastEvent' = "client.audio"
    /\ UNCHANGED <<sessionUuid, callerInfo, ws, isInitialized, clientState,
                   conns, pendingInits, clientOut>>
    /\ UNCHANGED audioVars
    /\ UNCHANGED extVars

\* case "reset"
ClientReset ==
    /\ Receiving(clientState)
    /\ nMsgs < MaxMsgs
    /\ nMsgs' = nMsgs + 1
    /\ Flush(clientState)
    /\ backendOut' =
          BackendSend(backendOut, conns, ws,
                      [conn |-> ws, type |-> "conversation.item.create",
                       src |-> nMsgs + 1, len |-> 0])
    /\ lastEvent' = "client.reset"
    /\ UNCHANGED <<sessionUuid, callerInfo, ws, isInitialized, clientState,
                   conns, pendingInits>>
    /\ UNCHANGED extVars

\* clientWs.on("close")
ClientClose ==
    /\ clientState # "CLOSED"
    /\ Cleanup(conns, "CLOSED")
    /\ lastEvent' = "client.close"
    /\ UNCHANGED nMsgs
    /\ UNCHANGED extVars

\* clientWs.on("error"): the connection has failed and is closing
ClientError ==
    /\ Receiving(clientState)
    /\ Cleanup(conns, "FAILED")
    /\ lastEvent' = "client.error"
    /\ UNCHANGED nMsgs
    /\ UNCHANGED extVars

(* ------------------------------------------------------------------ *)
(* Backend connection handlers, attached in initializeOpenAIConnection  *)
(* ------------------------------------------------------------------ *)

Conns == 1..Len(conns)

\* a message of the backend arrives on connection c
BackendMsg(c) ==
    /\ Receiving(conns[c])
    /\ nMsgs < MaxMsgs
    /\ nMsgs' = nMsgs + 1
    /\ UNCHANGED <<sessionUuid, callerInfo, ws, isInitialized, clientState,
                   conns, pendingInits, backendOut>>
    /\ UNCHANGED extVars

\* the tool names in use
ToolNames == {"avr_get_caller_info", "lookup"}

\* the files of the avr_tools directory: the bundled caller-information tool
AvrToolsDir == <<"avr_get_caller_info">>

\* the files of the tools directory: no custom tool is installed
ToolsDir == <<>>

\* the instructions of a session without agent instructions
DefaultInstructions ==
    "You are a helpful assistant that can answer questions and help with tasks."

\* the session.update the open handler of connection by sends on connection w
SessionUpdate(w, by, instructions, tools) ==
    [conn |-> w, type |-> "session.update", src |-> 0, len |-> 0, by |-> by,
     instructions |-> instructions, tools |-> tools]

\* a run of the open handler of connection c: its stage, obj.session
\* .instructions until session.update is sent, and the greeting it resolved
OpenRun(c, stage, instructions, greeting) ==
    [conn |-> c, stage |-> stage, instructions |-> instructions,
     greeting |-> greeting]

\* ws.on("open") without AGENT_ID or without AGENT_API_BASE_URL: no lookup is
\* awaited; the default instructions and the local tools are sent in
\* session.update with ws.send, ws being the session's current connection,
\* and no greeting is fetched
BackendOpen(c) ==
    /\ agentEnv # "configured"
    /\ conns[c] = "CONNECTING"
    /\ conns' = [conns EXCEPT ![c] = "OPEN"]
    /\ apiToolHandlers' = setApiTools(<<>>)
    /\ backendOut' =
          BackendSend(backendOut, conns', ws,
                      SessionUpdate(ws, c, DefaultInstructions,
                                    loadTools(AvrToolsDir, ToolsDir, <<>>)))
    /\ opens' = opens \cup {OpenRun(c, "done", "", "")}
    /\ lastEvent' = "backend.open"
    /\ UNCHANGED <<sessionUuid, callerInfo, ws, isInitialized, clientState,
                   pendingInits, clientOut, nMsgs>>
    /\ UNCHANGED audioVars
    /\ UNCHANGED <<agentEnv, toolCalls, probe, sess, downUsers>>

\* case "response.audio.delta" with a delta of n 24 kHz samples
BackendAudioDelta(c, n) ==
    /\ BackendMsg(c)
    /\ LET input == InputChunk(srcPos, n)
           r == processOpenAIAudioChunk(audioBuffer8k, downPhase, input)
           out == ClientSend(clientOut, clientState,
                             AudioMsgs(r.frames, "delta"))
       IN  /\ audioBuffer8k' = r.buffer
           /\ clientOut' = out
           /\ produced' = produced \o Downsample(downPhase, input)
           /\ downPhase' = DownPhaseAfter(downPhase, input)
           /\ srcPos' = srcPos + n
           /\ runFed' = runFed + Len(Downsample(downPhase, input))
           /\ runFrames' = runFrames + (Len(out) - Len(clientOut))
    /\ lastEvent' = "response.audio.delta"
    /\ UNCHANGED discarded

\* case "response.audio_started": audioBuffer8k = []
BackendAudioStarted(c) ==
    /\ BackendMsg(c)
    /\ audioBuffer8k' = <<>>
    /\ discarded' = discarded \cup {audioBuffer8k[i] : i \in 1..Len(audioBuffer8k)}
    /\ runFed' = 0
    /\ runFrames' = 0
    /\ lastEvent' = "response.audio_started"
    /\ UNCHANGED <<clientOut, downPhase, srcPos, produced>>

\* case "response.audio.done"
BackendAudioDone(c) ==
    /\ BackendMsg(c)
    /\ Flush(clientState)
    /\ lastEvent' = "response.audio.done"

\* case "response.done"
BackendResponseDone(c) ==
    /\ BackendMsg(c)
    /\ Flush(clientState)
    /\ lastEvent' = "response.done"

\* case "input_audio_buffer.speech_started"
BackendSpeechStarted(c) ==
    /\ BackendMsg(c)
    /\ clientOut' = ClientSend(clientOut, clientState,
                               <<PlainMsg("interruption")>>)
    /\ lastEvent' = "input_audio_buffer.speech_started"
    /\ UNCHANGED audioVars

\* ws.on("close")
BackendClose(c) ==
    /\ conns[c] \in {"OPEN", "CLOSING", "FAILED"}
    /\ conns' = [conns EXCEPT ![c] = "CLOSED"]
    /\ Flush(clientState)
    /\ isInitialized' = FALSE
    /\ lastEvent' = "backend.close"
    /\ UNCHANGED <<sessionUuid, callerInfo, ws, clientState, pendingInits,
                   backendOut, nMsgs>>
    /\ UNCHANGED extVars

\* ws.on("error"): the connection has failed and is closing
BackendError(c) ==
    /\ conns[c] \in {"CONNECTING", "OPEN", "CLOSING"}
    /\ Cleanup([conns EXCEPT ![c] = "FAILED"], clientState)
    /\ lastEvent' = "backend.error"
    /\ UNCHANGED nMsgs
    /\ UNCHANGED extVars

Next ==
    \/ \E u \in Uuids : ClientInit(u)
    \/ \E p \in pendingInits, ok \in BOOLEAN : ClientInitResume(p, ok)
    \/ \E n \in ClientAudioSizes : ClientAudio(n)
    \/ ClientReset
    \/ ClientClose
    \/ ClientError
    \/ \E c \in Conns : BackendOpen(c)
    \/ \E c \in Conns, n \in DeltaSizes : BackendAudioDelta(c, n)
    \/ \E c \in Conns : BackendAudioStarted(c)
    \/ \E c \in Conns : BackendAudioDone(c)
    \/ \E c \in Conns : BackendResponseDone(c)
    \/ \E c \in Conns : BackendSpeechStarted(c)
    \/ \E c \in Conns : BackendClose(c)
    \/ \E c \in Conns : BackendError(c)

Spec == Init /\ [][Next]_vars

(* ------------------------------------------------------------------ *)
(* The session with an agent API: the lookups of the open handler and   *)
(* the function calls of the backend                                    *)
(* ------------------------------------------------------------------ *)

\* JavaScript values of a response: a string, a number or null, with the
\* text String(value) gives
JsString(v) == [t |-> "string", v |-> v]
JsNumber(v) == [t |-> "number", v |-> v]
JsNull == [t |-> "null", v |-> "null"]

\* an object with the fields message and text (JsNull: without the field)
\* and its JSON.stringify
JsObject(message, text, json) ==
    [t |-> "object", message |-> message, text |-> text, v |-> json]

\* a promise rejected, a function that threw
Throws == [t |-> "throws", v |-> "Error"]

\* the truthiness of a value
Truthy(x) ==
    \/ x.t = "string" /\ x.v # ""
    \/ x.t = "number" /\ x.v # "0"
    \/ x.t = "object"

\* a normalisation that encodes every object as JSON
NormalizeToolResultJson(content) == content.v

\* the instructions of the response.create built from a tool's result:
\* content.message || content.text || JSON.stringify(content) for an object,
\* String(content) otherwise, and the toString() of what is not a string
NormalizeToolResult(content) ==
    LET responseText ==
            IF Truthy(content) /\ content.t = "object"
            THEN IF Truthy(content.message) THEN content.message
                 ELSE IF Truthy(content.text) THEN content.text
                 ELSE JsString(content.v)
            ELSE JsString(content.v)
    IN  IF responseText.t = "string" THEN responseText.v
        ELSE IF responseText.t = "null" THEN ""
        ELSE responseText.v

\* a response.create the handler by sends on connection w
ResponseCreate(w, by, kind, instructions) ==
    [conn |-> w, type |-> "response.create", src |-> 0, len |-> 0, by |-> by,
     kind |-> kind, instructions |-> instructions]

\* a failed call answered with a response.create carrying the error
ToolReplyError(out, cs, w, by, content) ==
    BackendSend(out, cs, w, ResponseCreate(w, by, "tool", content.v))

\* the try block around the tool handler: the result of a handler that
\* returned is sent with ws.send as a response.create; an exception, of the
\* lookup, of JSON.parse, of the handler or of ws.send, is logged only
ToolReply(out, cs, w, by, content) ==
    IF content.t = "throws" THEN out
    ELSE BackendSend(out, cs, w,
                     ResponseCreate(w, by, "tool",
                                    NormalizeToolResult(content)))

\* a || b || 'Unknown' of the caller-information tool
OrUnknown(a, b) == IF a # NULL THEN a ELSE IF b # NULL THEN b ELSE "Unknown"

\* the text the caller-information tool builds from a caller record
CallerInfoText(infoType, ci) ==
    IF infoType = "phone"
    THEN "Caller phone number: " \o OrUnknown(ci.phoneNumber, ci.callerId)
    ELSE IF infoType = "name"
    THEN "Caller name: " \o OrUnknown(ci.callerName, NULL)
    ELSE "Caller information - Phone: "
         \o OrUnknown(ci.phoneNumber, ci.callerId)
         \o ", Name: " \o OrUnknown(ci.callerName, NULL)
         \o ", Channel: " \o OrUnknown(ci.channel, NULL)
         \o ", Context: " \o OrUnknown(ci.context, NULL)

\* if (callerInfo && (callerInfo.phoneNumber || callerInfo.callerId))
HasSessionCallerInfo(ci) ==
    ci # NoCallerInfo /\ (ci.phoneNumber # NULL \/ ci.callerId # NULL)

\* the info_type values of the tool's schema; "malformed" stands for
\* arguments JSON.parse rejects
InfoTypes == {"phone", "name", "all"}

\* the outcomes of the tool's fallback request to AMI_URL/variables: the
\* variables of the call, the fields the tool reads as {phoneNumber,
\* callerName, channel, context}, or a failed request
AmiOutcomes ==
    {[ok |-> TRUE,
      data |-> [phoneNumber |-> "tel-ami", callerName |-> NULL,
                callerId |-> NULL, channel |-> "SIP", context |-> NULL]],
     [ok |-> FALSE,
      data |-> [phoneNumber |-> NULL, callerName |-> NULL, callerId |-> NULL,
                channel |-> NULL, context |-> NULL]]}

\* what the fallback of the caller-information tool returns: it catches its
\* own errors
CallerInfoFallback(infoType, ami) ==
    IF ami.ok THEN JsString(CallerInfoText(infoType, ami.data))
    ELSE JsString("Caller information not available. Error: request failed")

\* what a remote tool's POST resolves to: response.data, or a rejection
RemoteOutcomes ==
    {Throws, JsString("done"),
     JsObject(JsString("done"), JsString("other"), "{message,text}"),
     JsObject(JsNull, JsString("done"), "{text}"),
     JsObject(JsNumber("0"), JsString("done"), "{message:0,text}"),
     JsObject(JsNull, JsNull, "{}")}

\* the outcomes a suspended call of handler h can resolve to
CallOutcomes(t) ==
    IF t.handler.kind = "remote" THEN RemoteOutcomes
    ELSE {CallerInfoFallback(t.infoType, ami) : ami \in AmiOutcomes}

\* the variables the function-call handlers leave alone
callVars == <<sessionUuid, callerInfo, ws, isInitialized, clientState, conns,
              pendingInits, clientOut, agentEnv, apiToolHandlers, opens,
              probe, sess, downUsers>>

\* case "response.function_call_arguments.done" for the tool name with the
\* arguments args, up to the await of the handler: an unknown name and
\* malformed arguments throw, the bundled tool answers from the session's
\* caller record if it has one, every other call waits for a request
BackendFunctionCall(c, name, args) ==
    /\ Receiving(conns[c])
    /\ nMsgs < MaxMsgs
    /\ nMsgs' = nMsgs + 1
    /\ LET h == getToolHandler(name, AvrToolsDir, ToolsDir, apiToolHandlers)
           id == nMsgs + 1
       IN  IF h.kind = "notfound" \/ args = "malformed"
           THEN /\ backendOut' = ToolReply(backendOut, conns, ws, id, Throws)
                /\ lastEvent' = "function_call.failed"
                /\ UNCHANGED toolCalls
           ELSE IF h.kind = "local" /\ HasSessionCallerInfo(callerInfo)
           THEN /\ backendOut' =
                      ToolReply(backendOut, conns, ws, id,
                                JsString(CallerInfoText(args, callerInfo)))
                /\ lastEvent' = "function_call.returned"
                /\ UNCHANGED toolCalls
           ELSE /\ toolCalls' = toolCalls \cup
                      {[id |-> id, conn |-> c, name |-> name, handler |-> h,
                        infoType |-> args, uuid |-> sessionUuid,
                        callerInfo |-> callerInfo]}
                /\ lastEvent' = "function_call.awaiting"
                /\ UNCHANGED backendOut
    /\ UNCHANGED callVars
    /\ UNCHANGED audioVars

\* the handler of the suspended call t resolves to content: the rest of the
\* try block
ToolCallResume(t, content) ==
    /\ t \in toolCalls
    /\ content \in CallOutcomes(t)
    /\ toolCalls' = toolCalls \ {t}
    /\ backendOut' = ToolReply(backendOut, conns, ws, t.id, content)
    /\ lastEvent' = IF content.t = "throws" THEN "function_call.failed"
                    ELSE "function_call.returned"
    /\ UNCHANGED nMsgs
    /\ UNCHANGED callVars
    /\ UNCHANGED audioVars

\* what getSystemInstructions resolves to: {system}, {instructions}, a plain
\* string, or a rejection
InstructionOutcomes ==
    {[t |-> "throws", system |-> JsNull, instructions |-> JsNull,
      v |-> "Error"],
     [t |-> "object", system |-> JsString("agent"),
      instructions |-> JsNull, v |-> "{system}"],
     [t |-> "object", system |-> JsNull,
      instructions |-> JsString("agent"), v |-> "{instructions}"],
     [t |-> "string", system |-> JsNull, instructions |-> JsNull,
      v |-> "agent"]}

\* a rejection that leaves the instructions obj was built with
ResolveInstructionsInitial(data) ==
    IF data.t = "throws"
    THEN "You are a helpful assistant that can answer questions and help with tasks. Please respond in German unless specifically asked to use another language."
    ELSE IF Truthy(data.system) THEN data.system.v
    ELSE IF Truthy(data.instructions) THEN data.instructions.v
    ELSE data.v

\* data.system || data.instructions || data, the default after a rejection
ResolveInstructions(data) ==
    IF data.t = "throws" THEN DefaultInstructions
    ELSE IF Truthy(data.system) THEN data.system.v
    ELSE IF Truthy(data.instructions) THEN data.instructions.v
    ELSE data.v

\* what getTools resolves to: an array of descriptors, something that is not
\* an array, or a rejection
ToolsOutcomes ==
    {[t |-> "throws", tools |-> <<>>],
     [t |-> "object", tools |-> <<>>],
     [t |-> "array", tools |->
        <<[name |-> "lookup", description |-> "api/lookup",
           url |-> "http://a"]>>]}

\* apiTools after the lookup: [] unless an array was returned
ResolveTools(data) == IF data.t = "array" THEN data.tools ELSE <<>>

\* a greeting string: its text between leading and trailing blanks
GreetingString(lead, body, trail) ==
    [t |-> "string", lead |-> lead, body |-> body, trail |-> trail]

\* the empty string
EmptyString == GreetingString(0, "", 0)

\* what getGreeting resolves to: {greeting}, {text}, a blank string, null, or
\* a rejection
GreetingOutcomes ==
    {[t |-> "throws", greeting |-> EmptyString, text |-> EmptyString],
     [t |-> "null", greeting |-> EmptyString, text |-> EmptyString],
     [t |-> "object", greeting |-> GreetingString(1, "Hallo", 1),
      text |-> EmptyString],
     [t |-> "object", greeting |-> EmptyString,
      text |-> GreetingString(0, "Hallo", 0)],
     [t |-> "string", greeting |-> GreetingString(3, "", 0),
      text |-> EmptyString]}

\* a greeting that is sent whatever it contains
GreetingTextUntrimmed(data) ==
    IF data.t = "throws" THEN "" ELSE "Hallo"

\* greetingText.trim() of (greetingData && (greetingData.greeting ||
\* greetingData.text || greetingData)) || "" if that is a string, "" if it is
\* not or the lookup was rejected; a plain string arrives in field greeting
GreetingText(data) ==
    IF data.t \in {"throws", "null"} THEN ""
    ELSE IF data.t = "string" THEN data.greeting.body
    ELSE IF data.greeting.lead + data.greeting.trail > 0
            \/ data.greeting.body # ""
    THEN data.greeting.body
    ELSE IF data.text.lead + data.text.trail > 0 \/ data.text.body # ""
    THEN data.text.body
    ELSE ""

\* the instructions of the greeting response.create
GreetingInstructions(exactGreeting) ==
    "Du hast grade den Hoerer abgenommen. Sage genau und ausschliesslich folgendes, ohne Zusaetze: \""
    \o exactGreeting \o "\""

\* the variables the open handler leaves alone
openVars == <<sessionUuid, callerInfo, ws, isInitialized, clientState,
              pendingInits, clientOut, nMsgs, agentEnv, toolCalls, probe,
              sess, downUsers>>

\* ws.on("open") with AGENT_ID and AGENT_API_BASE_URL set, up to await
\* apiClient.getSystemInstructions
BackendOpenConfigured(c) ==
    /\ agentEnv = "configured"
    /\ conns[c] = "CONNECTING"
    /\ conns' = [conns EXCEPT ![c] = "OPEN"]
    /\ opens' = opens \cup {OpenRun(c, "instructions", "", "")}
    /\ lastEvent' = "backend.open"
    /\ UNCHANGED <<backendOut, apiToolHandlers>>
    /\ UNCHANGED openVars
    /\ UNCHANGED audioVars

\* the open handler from the result of getSystemInstructions to await
\* apiClient.getTools
OpenInstructions(r, data) ==
    /\ r \in opens
    /\ r.stage = "instructions"
    /\ opens' = (opens \ {r}) \cup
                {[r EXCEPT !.stage = "tools",
                           !.instructions = ResolveInstructions(data)]}
    /\ lastEvent' = "backend.open.instructions"
    /\ UNCHANGED <<conns, backendOut, apiToolHandlers>>
    /\ UNCHANGED openVars
    /\ UNCHANGED audioVars

\* the open handler from the result of getTools to await
\* apiClient.getGreeting: setApiTools, loadTools and ws.send of session.update
\* on the session's current connection; a send on a connecting connection
\* throws and ends the handler
OpenTools(r, data) ==
    /\ r \in opens
    /\ r.stage = "tools"
    /\ apiToolHandlers' = setApiTools(ResolveTools(data))
    /\ backendOut' =
          BackendSend(backendOut, conns, ws,
                      SessionUpdate(ws, r.conn, r.instructions,
                                    loadTools(AvrToolsDir, ToolsDir,
                                              ResolveTools(data))))
    /\ opens' = (opens \ {r}) \cup
                {[r EXCEPT !.stage = IF ws # 0 /\ conns[ws] = "CONNECTING"
                                     THEN "done" ELSE "greeting",
                           !.instructions = ""]}
    /\ lastEvent' = "backend.open.tools"
    /\ UNCHANGED conns
    /\ UNCHANGED openVars
    /\ UNCHANGED audioVars

\* the greeting the open handler sends, if any: a response.create on the
\* session's current connection when the trimmed greeting is not empty
SendGreeting(out, cs, w, by, data) ==
    IF GreetingText(data) # ""
    THEN BackendSend(out, cs, w,
                     ResponseCreate(w, by, "greeting",
                                    GreetingInstructions(GreetingText(data))))
    ELSE out

\* the open handler from the result of getGreeting to its end
OpenGreeting(r, data) ==
    /\ r \in opens
    /\ r.stage = "greeting"
    /\ backendOut' = SendGreeting(backendOut, conns, ws, r.conn, data)
    /\ opens' = (opens \ {r}) \cup
                {[r EXCEPT !.stage = "done",
                           !.greeting = GreetingText(data)]}
    /\ lastEvent' = "backend.open.greeting"
    /\ UNCHANGED <<conns, apiToolHandlers>>
    /\ UNCHANGED openVars
    /\ UNCHANGED audioVars

\* the session id of the sessions with an agent
AgentUuids == {"u1"}

\* a gateway started with AGENT_ID, with or without AGENT_API_BASE_URL
InitAgent ==
    /\ InitSession
    /\ agentEnv \in {"unconfigured", "configured"}
    /\ probe = NoProbe

\* an agent API without instructions
NoInstructions == {d \in InstructionOutcomes : d.t = "throws"}

\* an agent API without tools
NoTools == {d \in ToolsOutcomes : d.t = "throws"}

\* an agent API without greeting
NoGreeting == {d \in GreetingOutcomes : d.t = "throws"}

\* the session and the configuration lookups of its open handlers, the agent
\* API having instructions and tools and no greeting
NextAgent ==
    \/ \E u \in AgentUuids : ClientInit(u)
    \/ \E p \in pendingInits : ClientInitResume(p, TRUE)
    \/ \E c \in Conns : BackendOpen(c)
    \/ \E c \in Conns : BackendOpenConfigured(c)
    \/ \E r \in opens, data \in InstructionOutcomes : OpenInstructions(r, data)
    \/ \E r \in opens, data \in ToolsOutcomes : OpenTools(r, data)
    \/ \E r \in opens, data \in NoGreeting : OpenGreeting(r, data)
    \/ \E c \in Conns : BackendClose(c)

SpecAgent == InitAgent /\ [][NextAgent]_vars

\* the session and the greeting lookups of its open handlers, the agent API
\* having a greeting and neither instructions nor tools
NextGreeting ==
    \/ \E u \in AgentUuids : ClientInit(u)
    \/ \E p \in pendingInits : ClientInitResume(p, TRUE)
    \/ \E c \in Conns : BackendOpen(c)
    \/ \E c \in Conns : BackendOpenConfigured(c)
    \/ \E r \in opens, data \in NoInstructions : OpenInstructions(r, data)
    \/ \E r \in opens, data \in NoTools : OpenTools(r, data)
    \/ \E r \in opens, data \in GreetingOutcomes : OpenGreeting(r, data)
    \/ \E c \in Conns : BackendClose(c)

SpecGreeting == InitAgent /\ [][NextGreeting]_vars

\* what getTools resolves to in the model of the registry: a rejection, one
\* tool with a handler url, and a list of a tool without handler url and a
\* tool with one
RegistryToolsOutcomes ==
    {[t |-> "throws", tools |-> <<>>],
     [t |-> "array", tools |->
        <<[name |-> "lookup", description |-> "api/lookup",
           url |-> "http://a"]>>],
     [t |-> "array", tools |->
        <<[name |-> "lookup", description |-> "api/lookup without url",
           url |-> NULL],
          [name |-> "search", description |-> "api/search",
           url |-> "http://b"]>>]}

\* the session and the tool lookups of its open handlers, the agent API
\* having tools and neither instructions nor greeting
NextRegistry ==
    \/ \E u \in AgentUuids : ClientInit(u)
    \/ \E p \in pendingInits : ClientInitResume(p, TRUE)
    \/ \E c \in Conns : BackendOpen(c)
    \/ \E c \in Conns : BackendOpenConfigured(c)
    \/ \E r \in opens, data \in NoInstructions : OpenInstructions(r, data)
    \/ \E r \in opens, data \in RegistryToolsOutcomes : OpenTools(r, data)
    \/ \E r \in opens, data \in NoGreeting : OpenGreeting(r, data)
    \/ \E c \in Conns : BackendClose(c)

SpecRegistry == InitAgent /\ [][NextRegistry]_vars

\* the session, the lookups of its open handlers and the client's audio, the
\* agent API having neither instructions nor tools nor greeting
NextOrder ==
    \/ \E u \in AgentUuids : ClientInit(u)
    \/ \E p \in pendingInits : ClientInitResume(p, TRUE)
    \/ \E n \in ClientAudioSizes : ClientAudio(n)
    \/ \E c \in Conns : BackendOpen(c)
    \/ \E c \in Conns : BackendOpenConfigured(c)
    \/ \E r \in opens, data \in NoInstructions : OpenInstructions(r, data)
    \/ \E r \in opens, data \in NoTools : OpenTools(r, data)
    \/ \E r \in opens, data \in NoGreeting : OpenGreeting(r, data)
    \/ \E c \in Conns : BackendClose(c)

SpecOrder == InitAgent /\ [][NextOrder]_vars

\* the deltas of the session with function calls
CallDeltaSizes == {286}

\* the arguments of the function calls
CallArgs == {"phone", "malformed"}

\* an agent API with the tool lookup
CallToolsOutcomes == {d \in ToolsOutcomes : d.t = "array"}

\* a gateway started with AGENT_ID and AGENT_API_BASE_URL
InitCalls ==
    /\ InitSession
    /\ agentEnv = "configured"
    /\ probe = NoProbe

\* the session and the function calls of its backend, the agent API having
\* the tool lookup and neither instructions nor greeting
NextCalls ==
    \/ \E u \in AgentUuids : ClientInit(u)
    \/ \E p \in pendingInits, ok \in BOOLEAN : ClientInitResume(p, ok)
    \/ \E c \in Conns : BackendOpenConfigured(c)
    \/ \E r \in opens, data \in NoInstructions : OpenInstructions(r, data)
    \/ \E r \in opens, data \in CallToolsOutcomes : OpenTools(r, data)
    \/ \E r \in opens, data \in NoGreeting : OpenGreeting(r, data)
    \/ \E c \in Conns, name \in ToolNames \cup {"unknown"},
          args \in CallArgs : BackendFunctionCall(c, name, args)
    \/ \E t \in toolCalls, content \in RemoteOutcomes \cup
             {CallerInfoFallback(i, ami) : i \in InfoTypes, ami \in AmiOutcomes} :
          ToolCallResume(t, content)
    \/ \E c \in Conns, n \in CallDeltaSizes : BackendAudioDelta(c, n)
    \/ \E c \in Conns : BackendClose(c)

SpecCalls == InitCalls /\ [][NextCalls]_vars

(* ------------------------------------------------------------------ *)
(* The registry functions on their own: loadTools.js applied to the     *)
(* contents of the two directories and to a list of API descriptors     *)
(* ------------------------------------------------------------------ *)

\* fs.readdirSync of a tool directory: its files, in alphabetical order
DirChoices ==
    {<<>>, <<"avr_get_caller_info">>, <<"lookup">>,
     <<"avr_get_caller_info", "lookup">>}

\* a descriptor of the agent API: name "" is a descriptor without name, url
\* NULL one without handler url
ApiDescriptors ==
    {[name |-> n, description |-> "api/" \o n, url |-> u] :
        n \in ToolNames \cup {""}, u \in {NULL, "http://a", "http://b"}}

\* the lists of at most MaxApiTools descriptors
ApiToolLists ==
    UNION {[1..k -> ApiDescriptors] : k \in 0..MaxApiTools}

\* the directories, the API list and the name of a function call
InitTools ==
    /\ InitSession
    /\ agentEnv = "configured"
    /\ \E name \in ToolNames \cup {"unknown"}, a \in DirChoices,
          t \in DirChoices, api \in ApiToolLists :
          probe = [NoProbe EXCEPT !.name = name, !.avrFiles = a,
                                  !.toolFiles = t, !.apiTools = api]

\* setApiTools(apiTools) and loadTools(apiTools) as the open handler calls
\* them, then getToolHandler(name) as the function-call handler calls it
ApplyRegistry ==
    /\ ~probe.applied
    /\ apiToolHandlers' = setApiTools(probe.apiTools)
    /\ probe' = [probe EXCEPT
                    !.tools = loadTools(probe.avrFiles, probe.toolFiles,
                                        probe.apiTools),
                    !.handler = getToolHandler(probe.name, probe.avrFiles,
                                               probe.toolFiles,
                                               apiToolHandlers'),
                    !.applied = TRUE]
    /\ UNCHANGED <<sessionUuid, callerInfo, ws, isInitialized, clientState,
                   conns, pendingInits, clientOut, backendOut, nMsgs,
                   lastEvent>>
    /\ UNCHANGED audioVars
    /\ UNCHANGED <<agentEnv, opens, toolCalls, sess, downUsers>>

NextTools == ApplyRegistry

SpecTools == InitTools /\ [][NextTools]_vars

(* ------------------------------------------------------------------ *)
(* Two client connections served by one process: each has the state of  *)
(* its own handleClientConnection call; the resamplers of index.js and  *)
(* the registry of loadTools.js are module-level and shared             *)
(* ------------------------------------------------------------------ *)

\* a buffer shared by the sessions
BufferOwnerShared(s) == 1

\* let audioBuffer8k = [] inside handleClientConnection: the buffer the
\* handlers of session s read and write is the one of their own closure
BufferOwner(s) == s

\* the tool lists the agent API returns to the sessions
TwoApiLists ==
    {<<>>,
     <<[name |-> "lookup", description |-> "api/lookup", url |-> "http://a"]>>,
     <<[name |-> "lookup", description |-> "api/lookup", url |-> "http://b"]>>}

\* the 24 kHz samples of one delta of session s: the stream of session 1 is
\* numbered 1, 2, ..., the one of session 2 is numbered -1, -2, ...
SessionChunk(s, pos, n) ==
    [i \in 1..n |-> IF s = 1 THEN pos + i ELSE 0 - (pos + i)]

InitTwo ==
    /\ InitSession
    /\ agentEnv = "configured"
    /\ probe = NoProbe

\* an event of session s is delivered
TwoEvent(s) ==
    /\ ~sess[s].released
    /\ nMsgs < MaxTwoMsgs
    /\ nMsgs' = nMsgs + 1
    /\ UNCHANGED <<sessionUuid, callerInfo, ws, isInitialized, clientState,
                   conns, pendingInits, clientOut, backendOut, lastEvent,
                   audioBuffer8k, srcPos, produced, discarded, runFed,
                   runFrames, agentEnv, opens, toolCalls, probe>>

\* the open handler of session s, the agent API returning the tools api:
\* setApiTools(apiTools)
TwoOpen(s, api) ==
    /\ TwoEvent(s)
    /\ ~sess[s].opened
    /\ apiToolHandlers' = setApiTools(api)
    /\ sess' = [sess EXCEPT ![s].opened = TRUE, ![s].apiTools = api]
    /\ UNCHANGED <<downPhase, downUsers>>

\* case "response.function_call_arguments.done" of session s:
\* getToolHandler(message.name)
TwoFunctionCall(s, name) ==
    /\ TwoEvent(s)
    /\ sess[s].opened
    /\ sess' = [sess EXCEPT
                   ![s].called = name,
                   ![s].handler = getToolHandler(name, AvrToolsDir, ToolsDir,
                                                 apiToolHandlers)]
    /\ UNCHANGED <<apiToolHandlers, downPhase, downUsers>>

\* case "response.audio.delta" of session s: the delta goes through
\* globalDownsampler into the session's buffer, whole frames to its client
TwoAudioDelta(s, n) ==
    /\ TwoEvent(s)
    /\ LET input == SessionChunk(s, sess[s].srcPos, n)
           b == BufferOwner(s)
           r == processOpenAIAudioChunk(sess[b].audioBuffer8k, downPhase,
                                        input)
       IN  /\ sess' = [t \in Sessions |->
                         [sess[t] EXCEPT
                            !.audioBuffer8k =
                               IF t = b THEN r.buffer ELSE @,
                            !.clientOut =
                               IF t = s THEN @ \o AudioMsgs(r.frames, "delta")
                               ELSE @,
                            !.srcPos = IF t = s THEN @ + n ELSE @]]
           /\ downPhase' = DownPhaseAfter(downPhase, input)
    /\ downUsers' = downUsers \cup {s}
    /\ UNCHANGED apiToolHandlers

\* flushAudioBuffer() of session s
TwoFlush(s, released) ==
    LET b == BufferOwner(s)
    IN  sess' = [t \in Sessions |->
                    [sess[t] EXCEPT
                       !.audioBuffer8k = IF t = b THEN <<>> ELSE @,
                       !.clientOut =
                          IF t = s
                          THEN @ \o AudioMsgs(
                                       FlushFrames(sess[b].audioBuffer8k),
                                       "flush")
                          ELSE @,
                       !.released = IF t = s THEN released ELSE @]]

\* case "response.audio.done" of session s
TwoAudioDone(s) ==
    /\ TwoEvent(s)
    /\ TwoFlush(s, FALSE)
    /\ UNCHANGED <<apiToolHandlers, downPhase, downUsers>>

\* cleanup() of session s: its buffer is flushed and its state released;
\* the resamplers and the registry are left as they are
TwoCleanup(s) ==
    /\ TwoEvent(s)
    /\ TwoFlush(s, TRUE)
    /\ UNCHANGED <<apiToolHandlers, downPhase, downUsers>>

NextTwo ==
    \/ \E s \in Sessions, api \in TwoApiLists : TwoOpen(s, api)
    \/ \E s \in Sessions, name \in ToolNames : TwoFunctionCall(s, name)
    \/ \E s \in Sessions, n \in DeltaSizes : TwoAudioDelta(s, n)
    \/ \E s \in Sessions : TwoAudioDone(s)
    \/ \E s \in Sessions : TwoCleanup(s)

SpecTwo == InitTwo /\ [][NextTwo]_vars

(* ------------------------------------------------------------------ *)
(* The generic handler of an API tool: apiToolHandler (loadTools.js)    *)
(* ------------------------------------------------------------------ *)

\* entries of a handler descriptor's header list
MaxHeaders == 2

\* a header entry { key, value }
Header(k, v) == [key |-> k, value |-> v]

\* the entries a descriptor's headers are made of: a session header with a
\* value and with an empty one, two other headers, an entry without key
HeaderEntries ==
    {Header("X-AVR-UUID", "own"), Header("X-AVR-UUID", ""),
     Header("Authorization", "Bearer k"), Header("Content-Type", "text/plain"),
     Header("", "x")}

HeaderLists == UNION {[1..k -> HeaderEntries] : k \in 0..MaxHeaders}

\* handlerCfg.headers: absent, an array of entries, or an object, given by its
\* properties in insertion order
HandlerHeaders ==
    {[form |-> "none", kvs |-> <<>>]}
    \cup {[form |-> "array", kvs |-> l] : l \in HeaderLists}
    \cup {[form |-> "object", kvs |-> l] :
             l \in {m \in HeaderLists :
                       \A i, j \in 1..Len(m) :
                          /\ m[i].key # ""
                          /\ (i # j => m[i].key # m[j].key)}}

\* acc[k] = v on a headers object, held as the set of its properties
SetHeader(h, k, v) == {e \in h : e.key # k} \cup {Header(k, v)}

\* headersObj[k] is truthy: the property exists and is not the empty string
HasHeaderValue(h, k) == \E e \in h : e.key = k /\ e.value # ""

\* handlerCfg.headers.reduce((acc, kv) => { if (kv && kv.key) acc[kv.key] =
\* kv.value; return acc }, headersObj)
RECURSIVE ReduceHeaders(_, _)
ReduceHeaders(acc, kvs) ==
    IF kvs = <<>> THEN acc
    ELSE ReduceHeaders(IF Head(kvs).key # ""
                       THEN SetHeader(acc, Head(kvs).key, Head(kvs).value)
                       ELSE acc,
                       Tail(kvs))

\* { ...headersObj, ...handlerCfg.headers }
RECURSIVE SpreadHeaders(_, _)
SpreadHeaders(acc, kvs) ==
    IF kvs = <<>> THEN acc
    ELSE SpreadHeaders(SetHeader(acc, Head(kvs).key, Head(kvs).value),
                       Tail(kvs))

\* headersObj before the session header: Content-Type, then the descriptor's
MergeHeaders(headers) ==
    LET base == {Header("Content-Type", "application/json")}
    IN  IF headers.form = "array" THEN ReduceHeaders(base, headers.kvs)
        ELSE IF headers.form = "object" THEN SpreadHeaders(base, headers.kvs)
        ELSE base

\* the session header set whatever the descriptor supplies
SessionHeaderAlways(h, uuid) ==
    IF uuid # NULL THEN SetHeader(h, "X-AVR-UUID", uuid) ELSE h

\* if (sessionUuid && !headersObj['X-AVR-UUID'])
\*     headersObj['X-AVR-UUID'] = sessionUuid
SessionHeader(h, uuid) ==
    IF uuid # NULL /\ ~HasHeaderValue(h, "X-AVR-UUID")
    THEN SetHeader(h, "X-AVR-UUID", uuid)
    ELSE h

\* JSON.parse(message.arguments): null, or an object held as the set of its
\* properties
NoArgs == [isNull |-> TRUE]

ToolArgs ==
    {NoArgs,
     [isNull |-> FALSE, fields |-> {Header("phone", "123")}],
     [isNull |-> FALSE,
      fields |-> {Header("phone", "123"), Header("callerInfo", "mine")}]}

\* { ...(args || {}), callerInfo: callerInfo }: the properties of args other
\* than callerInfo, and the callerInfo property
Payload(args, ci) ==
    [fields |-> IF args = NoArgs THEN {}
                ELSE {e \in args.fields : e.key # "callerInfo"},
     callerInfo |-> ci]

\* apiToolHandler(sessionUuid, args, callerInfo) of the descriptor cfg: the
\* request axios.post(url, payload, { headers: headersObj }) makes
apiToolHandler(cfg, uuid, args, ci) ==
    [method |-> "POST", url |-> cfg.url,
     headers |-> SessionHeader(MergeHeaders(cfg.headers), uuid),
     payload |-> Payload(args, ci)]

\* the inputs of one call of the generic handler, nothing requested yet
RemoteProbe(cfg, uuid, args, ci) ==
    [handlerCfg |-> cfg, uuid |-> uuid, args |-> args, callerInfo |-> ci,
     requests |-> <<>>, response |-> [t |-> "pending"],
     result |-> [t |-> "pending"], applied |-> FALSE]

\* a registered descriptor, and the arguments the function-call handler
\* passes: the session id (null after cleanup), the parsed arguments and the
\* caller record (null after cleanup)
InitRemote ==
    /\ InitSession
    /\ agentEnv = "configured"
    /\ \E h \in HandlerHeaders, u \in {"u1", NULL}, a \in ToolArgs,
          ci \in {NoCallerInfo, CallerRecord("u1")} :
          probe = RemoteProbe([url |-> "http://a", headers |-> h], u, a, ci)

\* one call of the handler: the request is made, and the handler returns
\* response.data as it is, or throws with the rejection of axios.post
ApplyRemote(outcome) ==
    /\ ~probe.applied
    /\ probe' = [probe EXCEPT
                    !.requests = Append(@, apiToolHandler(probe.handlerCfg,
                                                          probe.uuid,
                                                          probe.args,
                                                          probe.callerInfo)),
                    !.response = outcome,
                    !.result = outcome,
                    !.applied = TRUE]
    /\ UNCHANGED <<sessionUuid, callerInfo, ws, isInitialized, clientState,
                   conns, pendingInits, clientOut, backendOut, nMsgs,
                   lastEvent>>
    /\ UNCHANGED audioVars
    /\ UNCHANGED <<agentEnv, apiToolHandlers, opens, toolCalls, sess,
                   downUsers>>

NextRemote == \E outcome \in RemoteOutcomes : ApplyRemote(outcome)

SpecRemote == InitRemote /\ [][NextRemote]_vars

(* ------------------------------------------------------------------ *)
(* One stream fed to the pipeline in chunks                             *)
(* ------------------------------------------------------------------ *)

\* sizes, in 24 kHz samples, of the chunks a stream is cut into
ChunkSizes == {0, 1, 2, 4, 195, 286, 765}

\* the pipeline before a stream: the buffer empty, the converter having
\* consumed phase samples since its last output sample
NewPipeline(phase) ==
    [samples |-> <<>>, frames |-> <<>>, buffer |-> <<>>, phase |-> phase,
     pos |-> 0]

\* processOpenAIAudioChunk called once per chunk, in order, on the one
\* globalDownsampler: the samples the converter returned, the frames
\* extracted and the buffer left, the converter's state and the stream
\* position
RECURSIVE FeedChunks(_, _)
FeedChunks(p, sizes) ==
    IF sizes = <<>> THEN p
    ELSE LET input == InputChunk(p.pos, Head(sizes))
             r == processOpenAIAudioChunk(p.buffer, p.phase, input)
         IN  FeedChunks([samples |-> p.samples \o Downsample(p.phase, input),
                         frames |-> p.frames \o r.frames,
                         buffer |-> r.buffer,
                         phase |-> DownPhaseAfter(p.phase, input),
                         pos |-> p.pos + Head(sizes)],
                        Tail(sizes))

\* a stream of a + b samples, not yet fed
InitResample ==
    /\ InitSession
    /\ agentEnv = "none"
    /\ \E phase \in 0..(DownRatio - 1), a \in ChunkSizes, b \in ChunkSizes :
          probe = [phase |-> phase, a |-> a, b |-> b,
                   whole |-> NewPipeline(phase), parts |-> NewPipeline(phase),
                   applied |-> FALSE]

\* the stream is fed as one chunk, and as two chunks of a and of b samples
ApplyResample ==
    /\ ~probe.applied
    /\ probe' = [probe EXCEPT
                    !.whole = FeedChunks(@, <<probe.a + probe.b>>),
                    !.parts = FeedChunks(@, <<probe.a, probe.b>>),
                    !.applied = TRUE]
    /\ UNCHANGED <<sessionUuid, callerInfo, ws, isInitialized, clientState,
                   conns, pendingInits, clientOut, backendOut, nMsgs,
                   lastEvent>>
    /\ UNCHANGED audioVars
    /\ UNCHANGED <<agentEnv, apiToolHandlers, opens, toolCalls, sess,
                   downUsers>>

NextResample == ApplyResample

SpecResample == InitResample /\ [][NextResample]_vars

(* ------------------------------------------------------------------ *)
(* The message dispatchers: the switch of clientWs.on("message") over   *)
(* the parsed message, and the backend's "error" message                *)
(* ------------------------------------------------------------------ *)

\* a client message: json is whether JSON.parse accepts the data, type is
\* message.type, uuid and audio (a number of 8 kHz samples) its fields
ClientData ==
    {[json |-> TRUE, type |-> "init", uuid |-> u, audio |-> 0] : u \in Uuids}
    \cup {[json |-> TRUE, type |-> "audio", uuid |-> NULL, audio |-> n] :
             n \in ClientAudioSizes}
    \cup {[json |-> TRUE, type |-> "reset", uuid |-> NULL, audio |-> 0],
          [json |-> TRUE, type |-> "ping", uuid |-> NULL, audio |-> 0],
          [json |-> FALSE, type |-> "", uuid |-> NULL, audio |-> 0]}

\* a switch whose default falls through to case "reset"
ClientCaseFallsThrough(d) ==
    IF ~d.json THEN "catch"
    ELSE IF d.type \in {"init", "audio", "reset"} THEN d.type
    ELSE "reset"

\* the branch of the handler a message takes: JSON.parse throws into the
\* catch, a known type selects its case, any other type the default
ClientCase(d) ==
    IF ~d.json THEN "catch"
    ELSE IF d.type \in {"init", "audio", "reset"} THEN d.type
    ELSE "default"

\* the catch and the default branch: the message is logged
ClientIgnored ==
    /\ Receiving(clientState)
    /\ nMsgs < MaxMsgs
    /\ nMsgs' = nMsgs + 1
    /\ lastEvent' = "client.ignored"
    /\ UNCHANGED <<sessionUuid, callerInfo, ws, isInitialized, clientState,
                   conns, pendingInits, clientOut, backendOut>>
    /\ UNCHANGED audioVars
    /\ UNCHANGED extVars

\* clientWs.on("message") with the data d
ClientMessage(d) ==
    \/ ClientCase(d) = "init" /\ ClientInit(d.uuid)
    \/ ClientCase(d) = "audio" /\ ClientAudio(d.audio)
    \/ ClientCase(d) = "reset" /\ ClientReset
    \/ ClientCase(d) \in {"catch", "default"} /\ ClientIgnored

\* a backend "error" message without its error object
NoError == [missing |-> TRUE]

\* message.error of the backend's "error" messages
ErrorObjects == {[message |-> "insufficient_quota"], NoError}

\* an "error" message without the backend's text
ErrorMsgNoText(text) ==
    [type |-> "error", samples |-> <<>>, via |-> "handler", message |-> ""]

\* { type: "error", message: message.error.message }
ErrorMsg(text) ==
    [type |-> "error", samples |-> <<>>, via |-> "handler", message |-> text]

\* case "error": the text is sent with clientWs.send; reading message.error
\* .message of a message without error object throws into the catch
BackendErrorMsg(c, e) ==
    /\ BackendMsg(c)
    /\ clientOut' =
          IF e = NoError THEN clientOut
          ELSE ClientSend(clientOut, clientState, <<ErrorMsg(e.message)>>)
    /\ lastEvent' = "error"
    /\ UNCHANGED audioVars

\* sizes of the deltas of the protocol model: 95 samples, and a frame and 95
ProtoDeltaSizes == {286, 765}

NextProto ==
    \/ \E d \in ClientData : ClientMessage(d)
    \/ \E p \in pendingInits, ok \in BOOLEAN : ClientInitResume(p, ok)
    \/ ClientClose
    \/ ClientError
    \/ \E c \in Conns : BackendOpen(c)
    \/ \E c \in Conns, n \in ProtoDeltaSizes : BackendAudioDelta(c, n)
    \/ \E c \in Conns : BackendAudioDone(c)
    \/ \E c \in Conns : BackendSpeechStarted(c)
    \/ \E c \in Conns, e \in ErrorObjects : BackendErrorMsg(c, e)
    \/ \E c \in Conns : BackendClose(c)
    \/ \E c \in Conns : BackendError(c)

\* one session without agent, with every kind of client message and the
\* backend's error messages
SpecProto == Init /\ [][NextProto]_vars

\* who spoke the text of a transcript
TranscriptRoles == {"agent", "user"}

\* { type: "transcript", role, text: message.transcript }
TranscriptMsg(role, text) ==
    [type |-> "transcript", samples |-> <<>>, via |-> "handler",
     role |-> role, text |-> text]

\* case "response.audio_transcript.done" (role agent) and case
\* "conversation.item.input_audio_transcription.completed" (role user): the
\* transcript is sent with clientWs.send
BackendTranscript(c, role) ==
    /\ BackendMsg(c)
    /\ clientOut' = ClientSend(clientOut, clientState,
                               <<TranscriptMsg(role, "hallo")>>)
    /\ lastEvent' =
          IF role = "agent" THEN "response.audio_transcript.done"
          ELSE "conversation.item.input_audio_transcription.completed"
    /\ UNCHANGED audioVars

NextSends ==
    \/ NextProto
    \/ \E c \in Conns, role \in TranscriptRoles : BackendTranscript(c, role)

\* one session without agent, with every handler that sends to the client
SpecSends == Init /\ [][NextSends]_vars

(* ------------------------------------------------------------------ *)
(* Properties of the framer and of flush                                *)
(* ------------------------------------------------------------------ *)

\* the "audio" messages sent to the client, in order
AudioOut == SelectSeq(clientOut, LAMBDA m : m.type = "audio")

\* the samples of a sequence of audio messages, concatenated
RECURSIVE SamplesOf(_)
SamplesOf(msgs) ==
    IF msgs = <<>> THEN <<>>
    ELSE Head(msgs).samples \o SamplesOf(Tail(msgs))

\* the backend's samples are numbered from 1, so a zero is padding or silence
NonPadding(samples) == SelectSeq(samples, LAMBDA x : x # 0)

HasPadding(frame) == \E i \in 1..Len(frame) : frame[i] = 0

HasSamples(frame) == \E i \in 1..Len(frame) : frame[i] # 0

\* the handlers that call flushAudioBuffer while the client may be open
FlushEvents ==
    {"response.audio.done", "response.done", "client.reset", "backend.close",
     "backend.error"}

\* the handlers that call cleanup
CleanupEvents == {"client.close", "client.error", "backend.error"}

\* C1: every audio message sent to the client carries exactly one frame of
\* FrameSize samples, never a shorter one; a frame sent by the delta path
\* holds buffered samples only, so padding reaches the client by flush alone.
C1_WholeFramesOnly ==
    \A i \in 1..Len(clientOut) :
        clientOut[i].type = "audio" =>
            /\ Len(clientOut[i].samples) = FrameSize
            /\ HasPadding(clientOut[i].samples) => clientOut[i].via = "flush"

\* a delta has sent a whole frame and a flush has sent a zero-padded remainder
C1_Witness ==
    /\ \E i \in 1..Len(clientOut) :
          clientOut[i].via = "delta" /\ ~HasPadding(clientOut[i].samples)
    /\ \E i \in 1..Len(clientOut) :
          /\ clientOut[i].via = "flush"
          /\ HasPadding(clientOut[i].samples)
          /\ HasSamples(clientOut[i].samples)

\* C2 as stated: while the client is open, the samples sent, followed by the
\* samples still buffered, are the downsampled samples, none dropped,
\* duplicated or reordered.
C2_NoSampleLost ==
    clientState = "OPEN" =>
        NonPadding(SamplesOf(AudioOut)) \o audioBuffer8k = produced

\* C2 amended: the same, except for the samples that were pending in the
\* buffer when a response.audio_started event cleared it.
C2_NoSampleLostButCleared ==
    clientState = "OPEN" =>
        NonPadding(SamplesOf(AudioOut)) \o audioBuffer8k
            = SelectSeq(produced, LAMBDA x : x \notin discarded)

\* a frame was delivered and response.audio_started then cleared a remainder
C2_Witness ==
    /\ clientState = "OPEN"
    /\ discarded # {}
    /\ AudioOut # <<>>
    /\ lastEvent = "response.audio_started"

\* C3: with the client open, when the samples fed since the buffer was last
\* empty total k * FrameSize, the framer has sent exactly k frames and the
\* buffer is empty, however the samples were split across deltas.
C3_MultipleOfFrame ==
    (clientState = "OPEN" /\ runFed % FrameSize = 0) =>
        /\ runFrames = runFed \div FrameSize
        /\ audioBuffer8k = <<>>

\* two frames' worth of samples arrived in two deltas
C3_Witness ==
    /\ clientState = "OPEN"
    /\ lastEvent = "response.audio.delta"
    /\ runFed = 2 * FrameSize
    /\ runFrames = 2
    /\ nMsgs = 3

\* the frame that holds the pending samples followed by zeros
IsPaddingOf(frame, pending) ==
    /\ Len(frame) = FrameSize
    /\ \A i \in 1..FrameSize :
          frame[i] = IF i <= Len(pending) THEN pending[i] ELSE 0

IsSilence(frame) ==
    Len(frame) = FrameSize /\ \A i \in 1..FrameSize : frame[i] = 0

\* out is before followed by one frame padding the pending samples and then
\* exactly k silence frames
PaddedThenSilence(before, out, pending, k) ==
    /\ Len(out) = Len(before) + 1 + k
    /\ SubSeq(out, 1, Len(before)) = before
    /\ out[Len(before) + 1].type = "audio"
    /\ IsPaddingOf(out[Len(before) + 1].samples, pending)
    /\ \A j \in 1..k :
          /\ out[Len(before) + 1 + j].type = "audio"
          /\ IsSilence(out[Len(before) + 1 + j].samples)

\* C4: a flush that finds n pending samples, 0 < n < FrameSize, with the
\* client open sends one frame holding the n samples followed by zeros, then
\* exactly 5 silence frames, in that order, and leaves the buffer empty.
C4_PaddedFlush ==
    [][(/\ lastEvent' \in FlushEvents
        /\ clientState = "OPEN"
        /\ Len(audioBuffer8k) > 0
        /\ Len(audioBuffer8k) < FrameSize)
       => /\ PaddedThenSilence(clientOut, clientOut', audioBuffer8k, 5)
          /\ audioBuffer8k' = <<>>]_vars

\* response.audio.done has flushed a remainder: the client's stream ends with
\* a frame of samples and zeros followed by five silence frames
C4_Witness ==
    /\ lastEvent = "response.audio.done"
    /\ clientState = "OPEN"
    /\ audioBuffer8k = <<>>
    /\ Len(clientOut) >= 6
    /\ HasSamples(clientOut[Len(clientOut) - 5].samples)
    /\ HasPadding(clientOut[Len(clientOut) - 5].samples)
    /\ \A j \in 0..4 : IsSilence(clientOut[Len(clientOut) - j].samples)

\* C5: a flush that finds the buffer empty sends nothing to the client and
\* leaves the buffer empty; the handlers that only flush (response.audio.done
\* and response.done) then change nothing of the session, so the second of
\* two consecutive flushes sends nothing.
C5_FlushIdempotent ==
    [][(lastEvent' \in FlushEvents /\ audioBuffer8k = <<>>)
       => /\ clientOut' = clientOut
          /\ audioBuffer8k' = <<>>
          /\ lastEvent' \in {"response.audio.done", "response.done"}
               => UNCHANGED <<sessionUuid, callerInfo, ws, isInitialized,
                              clientState, conns, pendingInits, backendOut,
                              downPhase>>]_vars

\* response.done has flushed an empty buffer of an open session: of the
\* three messages delivered none was a delta
C5_Witness ==
    /\ lastEvent = "response.done"
    /\ clientState = "OPEN"
    /\ nMsgs = 3
    /\ srcPos = 0
    /\ clientOut = <<>>
    /\ ws # 0

(* ------------------------------------------------------------------ *)
(* Properties of the client handlers and of teardown                    *)
(* ------------------------------------------------------------------ *)

\* the session's backend connection is open
BackendIsOpen == ws # 0 /\ conns[ws] = "OPEN"

\* everything but the backend's message stream and the history
SessionUnchanged ==
    UNCHANGED <<sessionUuid, callerInfo, audioBuffer8k, ws, isInitialized,
                clientState, conns, pendingInits, clientOut, downPhase>>

\* this step appends exactly one input_audio_buffer.append, carrying the
\* upsampled payload of n samples, to the session's backend connection
ForwardedOnce(n) ==
    /\ Len(backendOut') = Len(backendOut) + 1
    /\ SubSeq(backendOut', 1, Len(backendOut)) = backendOut
    /\ backendOut'[Len(backendOut')].type = "input_audio_buffer.append"
    /\ backendOut'[Len(backendOut')].conn = ws
    /\ backendOut'[Len(backendOut')].len = n * UpRatio

Terminated ==
    /\ audioBuffer8k = <<>>
    /\ sessionUuid = NULL
    /\ callerInfo = NoCallerInfo
    /\ ~isInitialized
    /\ clientState # "OPEN"

DeadConnStaysDead(c) ==
    conns[c] \in {"FAILED", "CLOSED"} =>
        /\ conns'[c] \in {"FAILED", "CLOSED"}
        /\ \A i \in (Len(backendOut) + 1)..Len(backendOut') :
              backendOut'[i].conn # c

C9_CleanupIdempotent ==
    [][(lastEvent \in CleanupEvents /\ lastEvent' \in CleanupEvents)
       => /\ UNCHANGED <<sessionUuid, callerInfo, audioBuffer8k, ws,
                         isInitialized, pendingInits, clientOut, backendOut>>
          /\ lastEvent' = "client.close"
               => clientState' = "CLOSED" /\ conns' = conns
          /\ lastEvent' = "client.error"
               => clientState' = "FAILED" /\ conns' = conns
          /\ lastEvent' = "backend.error"
               => /\ clientState' = clientState
                  /\ \E c \in Conns : conns' = [conns EXCEPT ![c] = "FAILED"]
      ]_vars

\* the only message was an init; the backend connection failed, which ran
\* cleanup, and the close of the client connection then ran it again
C9_Witness ==
    /\ lastEvent = "client.close"
    /\ conns = <<"FAILED">>
    /\ nMsgs = 1
    /\ pendingInits = {}

\* C10: a client reset flushes the pending audio (with the client open, n
\* pending samples go out in one padded frame followed by the silence
\* frames), leaves the buffer empty, and leaves the backend connection, the
\* session id, the caller info and the initialized flag as they were.
C10_ResetKeepsSession ==
    [][lastEvent' = "client.reset"
       => /\ audioBuffer8k' = <<>>
          /\ (clientState = "OPEN" /\ Len(audioBuffer8k) > 0)
               => PaddedThenSilence(clientOut, clientOut', audioBuffer8k,
                                    silenceFrames)
          /\ UNCHANGED <<ws, conns, sessionUuid, callerInfo, isInitialized,
                         clientState>>]_vars

\* a reset found samples buffered and the backend connection open
C10_Witness ==
    /\ lastEvent = "client.reset"
    /\ BackendIsOpen
    /\ isInitialized
    /\ sessionUuid # NULL
    /\ audioBuffer8k = <<>>
    /\ produced # <<>>
    /\ Len(clientOut) = 1 + silenceFrames
    /\ backendOut[Len(backendOut)].type = "conversation.item.create"

(* ------------------------------------------------------------------ *)
(* Tool resolution and the announced tool list                          *)
(* ------------------------------------------------------------------ *)

\* the API list registers a handler for name: a descriptor with that name
\* and a handler url
Registered(apiTools, name) ==
    \E i \in 1..Len(apiTools) :
        apiTools[i].name = name /\ apiTools[i].url # NULL

\* C13: a function call's name resolves to the bundled tool of that name if
\* there is one, else to the custom tool of that name, else to the remote
\* handler the API registered for it; a local tool always wins over a remote
\* one of the same name.
C13_ResolutionOrder ==
    probe.applied =>
        LET bundled == FileExists(probe.avrFiles, probe.name)
            custom == FileExists(probe.toolFiles, probe.name)
            remote == Registered(probe.apiTools, probe.name)
        IN  /\ bundled =>
                 probe.handler = [kind |-> "local",
                                  from |-> "avr_tools/" \o probe.name]
            /\ ~bundled /\ custom =>
                 probe.handler = [kind |-> "local",
                                  from |-> "tools/" \o probe.name]
            /\ ~bundled /\ ~custom /\ remote => probe.handler.kind = "remote"
            /\ ~bundled /\ ~custom /\ ~remote =>
                 probe.handler.kind = "notfound"

\* a name that is bundled, custom and registered by the API resolves to the
\* bundled tool
C13_Witness ==
    /\ probe.applied
    /\ FileExists(probe.avrFiles, probe.name)
    /\ FileExists(probe.toolFiles, probe.name)
    /\ Registered(probe.apiTools, probe.name)
    /\ probe.handler.from = "avr_tools/" \o probe.name

\* a merge that keeps, of the definitions with one name, the last only
RECURSIVE LastWriterWins(_)
LastWriterWins(defs) ==
    IF defs = <<>> THEN <<>>
    ELSE (IF \E i \in 2..Len(defs) : defs[i].name = Head(defs).name
          THEN <<>> ELSE <<Head(defs)>>)
         \o LastWriterWins(Tail(defs))

\* the definitions of a list, as a set
DefinitionsOf(defs) == {defs[i] : i \in 1..Len(defs)}

\* C14: the tool names of the announced list are unique: a name that occurs
\* in more than one source is announced once, with the definition of the last
\* source in merge order (bundled, custom, API).
C14_AnnouncedNamesUnique ==
    probe.applied =>
        /\ \A i, j \in 1..Len(probe.tools) :
              probe.tools[i].name = probe.tools[j].name => i = j
        /\ DefinitionsOf(probe.tools) =
              DefinitionsOf(LastWriterWins(
                  loadToolsFromDir("avr_tools", probe.avrFiles)
                  \o loadToolsFromDir("tools", probe.toolFiles)
                  \o buildApiToolDefinitions(probe.apiTools)))

(* ------------------------------------------------------------------ *)
(* Isolation of concurrent sessions                                     *)
(* ------------------------------------------------------------------ *)

\* C15: a remote tool call of a session resolves against the descriptors the
\* agent API returned to that session: the handler a call resolves to is the
\* one the session's own tool list gives, whatever another session
\* registered.
C15_OwnRemoteHandlers ==
    \A s \in Sessions :
        sess[s].called # "" =>
            sess[s].handler =
                getToolHandler(sess[s].called, AvrToolsDir, ToolsDir,
                               setApiTools(sess[s].apiTools))

\* C16: a resampler instance belongs to one session and direction: the
\* downsampler instance that one session's deltas go through is never fed
\* by another session.
C16_ResamplerOwnedByOneSession == Cardinality(downUsers) <= 1

\* an event of session s
SessionEvent(s) ==
    \/ \E api \in TwoApiLists : TwoOpen(s, api)
    \/ \E name \in ToolNames : TwoFunctionCall(s, name)
    \/ \E n \in DeltaSizes : TwoAudioDelta(s, n)
    \/ TwoAudioDone(s)
    \/ TwoCleanup(s)

\* the samples of session t's stream: positive for session 1, negative for 2
OwnSample(t, x) == IF t = 1 THEN x >= 0 ELSE x <= 0

\* C17: the sample buffer is private to its session: an event of a session
\* neither changes the buffer of another session nor sends anything to the
\* other session's client, and a session's buffer and client receive samples
\* of that session's backend stream only.
C17_BufferPrivate ==
    [][\A s \in Sessions : SessionEvent(s) =>
          /\ \A t \in Sessions \ {s} :
                /\ sess'[t].audioBuffer8k = sess[t].audioBuffer8k
                /\ sess'[t].clientOut = sess[t].clientOut
          /\ \A t \in Sessions :
                /\ \A i \in 1..Len(sess'[t].audioBuffer8k) :
                      OwnSample(t, sess'[t].audioBuffer8k[i])
                /\ \A i \in 1..Len(sess'[t].clientOut) :
                      \A j \in 1..FrameSize :
                          OwnSample(t, sess'[t].clientOut[i].samples[j])]_vars

\* both sessions hold samples, and one of them was sent a frame meanwhile
C17_Witness ==
    /\ Len(sess[1].audioBuffer8k) > 0
    /\ Len(sess[2].audioBuffer8k) > 0
    /\ Len(sess[2].clientOut) > 0

(* ------------------------------------------------------------------ *)
(* Caller-information lookup                                            *)
(* ------------------------------------------------------------------ *)

\* C18: a failed caller-information lookup does not abort init: the caller
\* record becomes the record of six null fields and init goes on as after a
\* successful lookup: a session not yet initialized gets a new connecting
\* backend connection as its current one, an initialized one answers ready.
C18_LookupFailureContinues ==
    [][\A p \in pendingInits :
          ClientInitResume(p, FALSE) =>
             /\ callerInfo' =
                   [phoneNumber |-> NULL, callerName |-> NULL,
                    callerId |-> NULL, channel |-> NULL, context |-> NULL,
                    extension |-> NULL]
             /\ ~isInitialized =>
                   /\ Len(conns') = Len(conns) + 1
                   /\ conns'[Len(conns')] = "CONNECTING"
                   /\ ws' = Len(conns')
                   /\ isInitialized'
                   /\ clientOut' = clientOut
             /\ isInitialized =>
                   /\ clientOut' = ClientSend(clientOut, clientState,
                                              <<PlainMsg("ready")>>)
                   /\ UNCHANGED <<conns, ws, isInitialized>>]_vars

\* init went on after a failed lookup: the record is all null and the new
\* backend connection is connecting
C18_Witness ==
    /\ lastEvent = "client.init.resume"
    /\ callerInfo = AllNullCaller
    /\ ws # 0
    /\ conns[ws] = "CONNECTING"
    /\ isInitialized

(* ------------------------------------------------------------------ *)
(* Function calls                                                       *)
(* ------------------------------------------------------------------ *)

\* what the handlers of the function calls return
ReturnedContents ==
    (RemoteOutcomes \ {Throws})
    \cup {CallerInfoFallback(i, ami) : i \in InfoTypes, ami \in AmiOutcomes}
    \cup {JsString(CallerInfoText(i, CallerRecord(u))) :
             i \in InfoTypes, u \in Uuids}

\* the handler of a function call returns content: a suspended call resolves
\* to it, or the bundled tool answers from the session's caller record
ToolReturned(content) ==
    \/ \E t \in toolCalls :
          ToolCallResume(t, content) /\ content.t # "throws"
    \/ \E c \in Conns, name \in ToolNames, args \in InfoTypes :
          /\ BackendFunctionCall(c, name, args)
          /\ lastEvent' = "function_call.returned"
          /\ content = JsString(CallerInfoText(args, callerInfo))

\* a string
IsText(x) == x.t = "string" /\ x.v # ""

\* the normalized result: a string as it is, an object as its message, else
\* its text, else its JSON encoding
ExpectedInstructions(content) ==
    IF content.t = "string" THEN content.v
    ELSE IF IsText(content.message) THEN content.message.v
    ELSE IF IsText(content.text) THEN content.text.v
    ELSE content.v

\* exactly one response.create with the given instructions is sent on the
\* session's current backend connection, and nothing else
SendsResponseCreate(instructions) ==
    \E m \in {backendOut'[i] : i \in 1..Len(backendOut')} :
        /\ backendOut' = Append(backendOut, m)
        /\ m.type = "response.create"
        /\ m.conn = ws
        /\ m.instructions = instructions

\* C11 as stated: whenever the handler of a function call returns, exactly
\* one response.create carrying the normalized result is sent to the backend.
C11_ResultAlwaysSent ==
    [][lastEvent' = "function_call.returned" =>
          \A content \in ReturnedContents :
             ToolReturned(content) =>
                SendsResponseCreate(ExpectedInstructions(content))]_vars

\* C11: whenever the handler of a function call returns, exactly one
\* response.create carrying the normalized result is sent on the session's
\* current backend connection if that connection is open at that moment, and
\* nothing is sent if it is not.
C11_ResultSentIfOpen ==
    [][lastEvent' = "function_call.returned" =>
          \A content \in ReturnedContents :
             ToolReturned(content) =>
                IF BackendIsOpen
                THEN SendsResponseCreate(ExpectedInstructions(content))
                ELSE backendOut' = backendOut]_vars

\* the JSON encoding of a remote tool's object result was sent as the
\* instructions of a response.create, and the text of an object's message
C11_Witness ==
    /\ \E i \in 1..Len(backendOut) :
          /\ backendOut[i].type = "response.create"
          /\ backendOut[i].instructions = "{}"
    /\ \E i \in 1..Len(backendOut) :
          /\ backendOut[i].type = "response.create"
          /\ backendOut[i].instructions = "done"

\* no file and no registered API handler has the name
Unresolvable(name) ==
    /\ ~FileExists(AvrToolsDir, name)
    /\ ~FileExists(ToolsDir, name)
    /\ ~\E e \in apiToolHandlers : e.name = name

\* nothing is sent, the connections stay as they are and the session keeps
\* its buffer, its id and its caller record
CallDropped ==
    /\ UNCHANGED <<backendOut, clientOut, conns, clientState, ws>>
    /\ UNCHANGED <<audioBuffer8k, sessionUuid, callerInfo>>
    /\ toolCalls' \subseteq toolCalls

\* C12: a function call whose tool cannot be resolved, whose arguments do not
\* parse or whose handler throws is dropped: nothing is sent to the backend
\* or to the client, both connections stay open and the session's buffer, id
\* and caller record are unchanged.
C12_FailedCallDropped ==
    [][lastEvent' = "function_call.failed" =>
          /\ \A t \in toolCalls : ToolCallResume(t, Throws) => CallDropped
          /\ \A c \in Conns, name \in ToolNames \cup {"unknown"},
                args \in InfoTypes \cup {"malformed"} :
                /\ BackendFunctionCall(c, name, args)
                /\ Unresolvable(name) \/ args = "malformed"
                => CallDropped]_vars

\* a call failed in a session with both connections open, an id and samples
\* in its buffer
C12_Witness ==
    /\ lastEvent = "function_call.failed"
    /\ BackendIsOpen
    /\ clientState = "OPEN"
    /\ Len(audioBuffer8k) > 0
    /\ sessionUuid # NULL

(* ------------------------------------------------------------------ *)
(* The open handler: session.update and greeting                        *)
(* ------------------------------------------------------------------ *)

\* the positions in backendOut of the messages of a type
Sent(type) == {i \in 1..Len(backendOut) : backendOut[i].type = type}

\* the positions of the greetings in backendOut
Greetings == {i \in Sent("response.create") : backendOut[i].kind = "greeting"}

\* the tools announced without any API tool
LocalToolsOnly == <<LocalToolDefinition("avr_tools", "avr_get_caller_info")>>

\* C19 as stated: every backend connection that opened has been sent exactly
\* one session.update once its open handler has ended; without a configured
\* agent API every session.update carries the default instructions and the
\* local tools only, and no greeting is sent.
C19_OneSessionUpdatePerConnection ==
    /\ \A r \in opens :
          r.stage = "done" =>
             Cardinality({i \in Sent("session.update") :
                             backendOut[i].conn = r.conn}) = 1
    /\ agentEnv = "unconfigured" =>
          /\ Greetings = {}
          /\ \A i \in Sent("session.update") :
                /\ backendOut[i].instructions = DefaultInstructions
                /\ backendOut[i].tools = LocalToolsOnly

\* the step sends one session.update of the run of connection c on the
\* session's current connection, and nothing else
SendsSessionUpdate(c, m) ==
    /\ backendOut' = Append(backendOut, m)
    /\ m.type = "session.update"
    /\ m.conn = ws
    /\ m.by = c

\* C19: every run of the open handler sends at most one session.update:
\* exactly one, on the session's current backend connection, if that
\* connection is open when the configuration lookups have returned, and none
\* if it is not.  Without a configured agent API, and after a failed lookup,
\* the session.update carries the default instructions, respectively the
\* local tools only, and the run sends no greeting.
C19_OneSessionUpdatePerRun ==
    [][/\ \A i, j \in Sent("session.update")' :
             backendOut'[i].by = backendOut'[j].by => i = j
       /\ agentEnv = "unconfigured" =>
             /\ Greetings' = {}
             /\ \A i \in Sent("session.update")' :
                   /\ backendOut'[i].instructions = DefaultInstructions
                   /\ backendOut'[i].tools = LocalToolsOnly
       /\ lastEvent' = "backend.open" =>
             \A c \in Conns :
                BackendOpen(c) =>
                   IF ws # 0 /\ conns'[ws] = "OPEN"
                   THEN \E m \in {backendOut'[i] : i \in 1..Len(backendOut')} :
                           SendsSessionUpdate(c, m)
                   ELSE backendOut' = backendOut
       /\ lastEvent' = "backend.open.tools" =>
             \A r \in opens, data \in ToolsOutcomes :
                OpenTools(r, data) =>
                   IF BackendIsOpen
                   THEN \E m \in {backendOut'[i] : i \in 1..Len(backendOut')} :
                           /\ SendsSessionUpdate(r.conn, m)
                           /\ m.instructions = r.instructions
                           /\ data.t # "array" => m.tools = LocalToolsOnly
                   ELSE backendOut' = backendOut
       /\ lastEvent' = "backend.open.instructions" =>
             \A r \in opens, data \in InstructionOutcomes :
                OpenInstructions(r, data) /\ data.t = "throws" =>
                   \E q \in opens' :
                      /\ q.conn = r.conn
                      /\ q.instructions = DefaultInstructions
       /\ lastEvent' = "backend.open.greeting" =>
             \A r \in opens, data \in GreetingOutcomes :
                OpenGreeting(r, data) /\ data.t = "throws" =>
                   backendOut' = backendOut]_vars

\* with a configured agent API whose lookups all failed, a run has ended
\* after sending its session.update with the default instructions and the
\* local tools, and without a greeting
C19_Witness ==
    /\ agentEnv = "configured"
    /\ Greetings = {}
    /\ \E r \in opens :
          /\ r.stage = "done"
          /\ \E i \in Sent("session.update") :
                /\ backendOut[i].by = r.conn
                /\ backendOut[i].conn = r.conn
                /\ backendOut[i].instructions = DefaultInstructions
                /\ backendOut[i].tools = LocalToolsOnly

\* C20 as stated: once the open handler of a connection has ended, exactly
\* one greeting was sent on that connection, after a session.update on it,
\* if the handler resolved a greeting, and none if it resolved none.
C20_GreetingPerConnection ==
    \A r \in opens :
        r.stage = "done" =>
           LET sent == {j \in Greetings : backendOut[j].conn = r.conn}
           IN  IF r.greeting # ""
               THEN /\ Cardinality(sent) = 1
                    /\ \A j \in sent :
                          \E i \in Sent("session.update") :
                             backendOut[i].conn = r.conn /\ i < j
               ELSE sent = {}

\* the greeting string a lookup result holds: the field greeting, else the
\* field text, of an object, or the string itself; none after a rejection
ResolvedGreeting(data) ==
    IF data.t \in {"throws", "null"} THEN EmptyString
    ELSE IF data.greeting # EmptyString THEN data.greeting
    ELSE data.text

\* C20: a run of the open handler that resolves a greeting which is not
\* blank sends exactly one greeting response.create, with the trimmed
\* greeting, on the session's current backend connection if that connection
\* is open when the greeting lookup returns, and none if it is not; a run
\* that resolves no greeting sends none; a run's greeting follows the
\* session.update that run sent.
C20_GreetingPerRun ==
    [][/\ \A i, j \in Greetings' :
             backendOut'[i].by = backendOut'[j].by => i = j
       /\ \A j \in Greetings' :
             \A i \in Sent("session.update")' :
                backendOut'[i].by = backendOut'[j].by => i < j
       /\ lastEvent' = "backend.open.greeting" =>
             \A r \in opens, data \in GreetingOutcomes :
                OpenGreeting(r, data) =>
                   IF ResolvedGreeting(data).body # "" /\ BackendIsOpen
                   THEN \E m \in {backendOut'[i] : i \in 1..Len(backendOut')} :
                           /\ backendOut' = Append(backendOut, m)
                           /\ m.type = "response.create"
                           /\ m.kind = "greeting"
                           /\ m.conn = ws
                           /\ m.by = r.conn
                           /\ m.instructions =
                                 GreetingInstructions(
                                     ResolvedGreeting(data).body)
                   ELSE backendOut' = backendOut]_vars

\* a run sent its session.update and then the trimmed greeting
C20_Witness ==
    \E j \in Greetings :
        /\ backendOut[j].instructions = GreetingInstructions("Hallo")
        /\ \E i \in Sent("session.update") :
              /\ backendOut[i].by = backendOut[j].by
              /\ backendOut[i].conn = backendOut[j].conn
              /\ i < j

(* ------------------------------------------------------------------ *)
(* Properties of the message dispatchers                                *)
(* ------------------------------------------------------------------ *)

\* the last message of the client's stream
LastOut(out) == out[Len(out)]

\* a step that sends the client nothing and tears nothing down
NothingTornDown ==
    UNCHANGED <<conns, clientState, audioBuffer8k, sessionUuid, callerInfo,
                ws, isInitialized, pendingInits, backendOut>>

\* C21 as stated: every backend message of type error adds one error message
\* to the client's stream, and connections, buffer, session id and caller
\* info stay as they were.
C21_ErrorAlwaysForwarded ==
    [][lastEvent' = "error" =>
          /\ Len(clientOut') = Len(clientOut) + 1
          /\ LastOut(clientOut').type = "error"
          /\ NothingTornDown]_vars

\* C21 amended: a backend message of type error that carries an error object
\* adds one error message with the object's message text to the end of the
\* client's stream if the client connection is open when it arrives; without
\* error object, or with the client connection not open, nothing is sent. In
\* every case the connections, the buffer, the session id and the caller info
\* stay as they were.
C21_ErrorForwardedIfOpen ==
    [][lastEvent' = "error" =>
          \A c \in Conns, e \in ErrorObjects :
             BackendErrorMsg(c, e) =>
                /\ IF e # NoError /\ clientState = "OPEN"
                   THEN /\ Len(clientOut') = Len(clientOut) + 1
                        /\ SubSeq(clientOut', 1, Len(clientOut)) = clientOut
                        /\ LastOut(clientOut').type = "error"
                        /\ LastOut(clientOut').message = e.message
                   ELSE clientOut' = clientOut
                /\ NothingTornDown]_vars

\* an error message arrived with both connections open and 95 samples in the
\* buffer: its text is the last message of the client's stream
C21_Witness ==
    /\ lastEvent = "error"
    /\ clientState = "OPEN"
    /\ ws # 0
    /\ conns[ws] = "OPEN"
    /\ Len(audioBuffer8k) = 95
    /\ clientOut # <<>>
    /\ LastOut(clientOut).type = "error"
    /\ LastOut(clientOut).message = "insufficient_quota"

\* a message JSON.parse rejects, or one whose type the switch does not know
Malformed(d) == ~d.json \/ d.type \notin {"init", "audio", "reset"}

\* C22: a client message that is not valid JSON or has an unknown type is
\* ignored: nothing is sent to the client or to the backend, no session state
\* changes, and the client connection stays as it was, its handler able to
\* take the next message.
C22_MalformedIgnored ==
    [][nMsgs' # nMsgs =>
          \A d \in ClientData :
             (Malformed(d) /\ ClientMessage(d)) =>
                /\ clientOut' = clientOut
                /\ backendOut' = backendOut
                /\ UNCHANGED <<sessionUuid, callerInfo, audioBuffer8k, ws,
                               isInitialized, conns, pendingInits, downPhase,
                               apiToolHandlers>>
                /\ clientState' = clientState]_vars

\* the third message of an initialized session with 95 buffered samples was
\* ignored: both connections are open and nothing was sent to the client
C22_Witness ==
    /\ lastEvent = "client.ignored"
    /\ nMsgs = 3
    /\ clientState = "OPEN"
    /\ BackendIsOpen
    /\ isInitialized
    /\ Len(audioBuffer8k) = 95
    /\ clientOut = <<>>

\* the messages this step sends to the backend
NewBackendOut == SubSeq(backendOut', Len(backendOut) + 1, Len(backendOut'))

\* C23: a backend connection is created only by the init handler, one at a
\* time, and only there does the session change its connection; a closed or
\* failed connection never opens again, and a client audio message that finds
\* the session's connection closed or failed is not forwarded, so audio flows
\* again only after the client's next init.
C23_NoAutoReconnect ==
    [][/\ (Len(conns') # Len(conns) \/ ws' # ws) =>
             /\ \E p \in pendingInits, ok \in BOOLEAN : ClientInitResume(p, ok)
             /\ Len(conns') = Len(conns) + 1
             /\ ws' = Len(conns')
       /\ \A c \in Conns :
             conns[c] \in {"FAILED", "CLOSED"} =>
                conns'[c] \in {"FAILED", "CLOSED"}
       /\ \A i \in 1..Len(NewBackendOut) :
             NewBackendOut[i].type = "input_audio_buffer.append" =>
                /\ ws' = ws
                /\ NewBackendOut[i].conn = ws
                /\ conns[ws] = "OPEN"]_vars

\* the first connection closed, the client sent init again, and the audio
\* message that followed was forwarded on the second connection
C23_Witness ==
    /\ lastEvent = "client.audio"
    /\ Len(conns) = 2
    /\ conns[1] = "CLOSED"
    /\ ws = 2
    /\ backendOut # <<>>
    /\ backendOut[Len(backendOut)].type = "input_audio_buffer.append"
    /\ backendOut[Len(backendOut)].conn = 2
    /\ \A i \in 1..Len(backendOut) :
          backendOut[i].type = "input_audio_buffer.append" =>
             backendOut[i].conn = 2

\* C24: once a session's initialization has resolved the caller record, no
\* event changes callerInfo, a further init on the same connection included,
\* until a cleanup sets it to null.
C24_CallerInfoImmutable ==
    [][callerInfo # NoCallerInfo =>
          \/ callerInfo' = callerInfo
          \/ /\ lastEvent' \in CleanupEvents
             /\ callerInfo' = NoCallerInfo]_vars

\* a is the front of b
IsPrefix(a, b) == Len(a) <= Len(b) /\ SubSeq(b, 1, Len(a)) = a

\* C25 as stated: every speech_started event of the backend adds exactly one
\* interruption message to the end of the client's stream.
C25_InterruptionAlwaysForwarded ==
    [][lastEvent' = "input_audio_buffer.speech_started" =>
          /\ Len(clientOut') = Len(clientOut) + 1
          /\ IsPrefix(clientOut, clientOut')
          /\ LastOut(clientOut').type = "interruption"]_vars

\* C25 amended: a speech_started event adds exactly one interruption message
\* to the end of the client's stream if the client connection is open when it
\* arrives, and nothing otherwise; every handler only appends to the stream,
\* so the interruption stands behind the frames sent for earlier deltas and
\* before every frame sent later. The event leaves the buffer alone: samples
\* of an earlier delta that did not yet fill a frame are sent after it.
C25_InterruptionInArrivalOrder ==
    [][/\ IsPrefix(clientOut, clientOut')
       /\ lastEvent' = "input_audio_buffer.speech_started" =>
             /\ IF clientState = "OPEN"
                THEN /\ Len(clientOut') = Len(clientOut) + 1
                     /\ LastOut(clientOut').type = "interruption"
                ELSE clientOut' = clientOut
             /\ audioBuffer8k' = audioBuffer8k
             /\ UNCHANGED <<conns, clientState, backendOut>>]_vars

\* a delta of a frame and 95 samples, then speech_started, then a flush: the
\* interruption stands between the delta's frame and the padded frame that
\* carries the delta's remaining samples
C25_Witness ==
    \E i \in 2..(Len(clientOut) - 1) :
        /\ clientOut[i].type = "interruption"
        /\ clientOut[i - 1].type = "audio"
        /\ clientOut[i - 1].via = "delta"
        /\ clientOut[i + 1].type = "audio"
        /\ clientOut[i + 1].via = "flush"
        /\ HasSamples(clientOut[i + 1].samples)

(* ------------------------------------------------------------------ *)
(* Flush triggers                                                       *)
(* ------------------------------------------------------------------ *)

\* C26: the handler of every flush trigger (response.audio.done,
\* response.done, reset, backend close, and the cleanup of client close,
\* client error and backend error) leaves the buffer empty; a backend close
\* that finds n samples buffered, 0 < n < FrameSize, and the client open sends
\* one frame padding the n samples and then the silence frames, the session id
\* and the caller info being still in place when the frames are sent.
C26_FlushTriggersEmptyBuffer ==
    [][/\ lastEvent' \in FlushEvents \cup CleanupEvents =>
             audioBuffer8k' = <<>>
       /\ (/\ lastEvent' = "backend.close"
           /\ Len(audioBuffer8k) > 0
           /\ Len(audioBuffer8k) < FrameSize
           /\ clientState = "OPEN") =>
             /\ PaddedThenSilence(clientOut, clientOut', audioBuffer8k,
                                  silenceFrames)
             /\ \A j \in 1..Len(audioBuffer8k) :
                   clientOut'[Len(clientOut) + 1].samples[j] =
                      ToInt16(audioBuffer8k[j])
             /\ UNCHANGED <<sessionUuid, callerInfo, clientState>>]_vars

\* the backend connection closed with 95 samples buffered and the client
\* open: the client received one frame holding the 95 samples and the silence
\* frames, and the session id is still set
C26_Witness ==
    /\ lastEvent = "backend.close"
    /\ clientState = "OPEN"
    /\ sessionUuid # NULL
    /\ audioBuffer8k = <<>>
    /\ Len(clientOut) = 1 + silenceFrames
    /\ Len(NonPadding(clientOut[1].samples)) = 95
    /\ \A j \in 2..Len(clientOut) : IsSilence(clientOut[j].samples)

(* ------------------------------------------------------------------ *)
(* The request of a remote tool handler                                 *)
(* ------------------------------------------------------------------ *)

\* the header names in use
HeaderKeys == {e.key : e \in HeaderEntries} \cup {"Content-Type"}

\* the descriptor has an entry for header k
Supplied(headers, k) ==
    /\ headers.form # "none"
    /\ \E i \in 1..Len(headers.kvs) : headers.kvs[i].key = k

\* the value of the descriptor's last entry for header k
DescriptorValue(headers, k) ==
    LET last == CHOOSE i \in 1..Len(headers.kvs) :
                    /\ headers.kvs[i].key = k
                    /\ \A j \in (i + 1)..Len(headers.kvs) :
                          headers.kvs[j].key # k
    IN  headers.kvs[last].value

\* the values request r sends for header k
SentValues(r, k) == {e.value : e \in {x \in r.headers : x.key = k}}

\* one POST to the descriptor's url whose body is the arguments, their own
\* callerInfo property replaced by the caller record
PostsArguments(r) ==
    /\ Len(probe.requests) = 1
    /\ r.method = "POST"
    /\ r.url = probe.handlerCfg.url
    /\ r.payload.callerInfo = probe.callerInfo
    /\ \A e \in r.payload.fields : e.key # "callerInfo"
    /\ \A k \in {"phone"}, v \in {"123"} :
          Header(k, v) \in r.payload.fields
             <=> (probe.args # NoArgs /\ Header(k, v) \in probe.args.fields)

InStreamOrder(samples) ==
    \A i \in 1..(Len(samples) - 1) : samples[i] < samples[i + 1]

LiveConns == {c \in Conns : conns[c] \in {"CONNECTING", "OPEN"}}

\* C29: a session never has two backend connections that are connecting or
\* open at the same time.
C29_OneLiveConnection ==
    Cardinality(LiveConns) <= 1

(* ------------------------------------------------------------------ *)
(* The registry of remote handlers across initializations               *)
(* ------------------------------------------------------------------ *)

\* the names a function call can carry
CallNames == ToolNames \cup {"search"}

\* name has a file in one of the two tool directories
LocalFile(name) == FileExists(AvrToolsDir, name) \/ FileExists(ToolsDir, name)

\* the registry holds the handlers of the list apiTools and no other: a name
\* has a remote handler exactly if the list has a descriptor of that name
\* with a handler url, and a call of the name is dispatched to that handler
\* unless a local file of the name comes first
RegistryIs(reg, apiTools) ==
    \A name \in CallNames :
        /\ HasApiHandler(reg, name) <=> Registered(apiTools, name)
        /\ getToolHandler(name, AvrToolsDir, ToolsDir, reg).kind = "remote"
              <=> (Registered(apiTools, name) /\ ~LocalFile(name))

\* C30: the remote-tool registry is rebuilt by every open handler: once the
\* handler has the API tool list T, the names with a remote handler are
\* exactly the names of T that carry a handler url, whatever an earlier
\* initialization registered; without agent API the open handler empties the
\* registry; no other step changes the registry.
C30_RegistryRebuilt ==
    [][/\ lastEvent' = "backend.open.tools" =>
             \A r \in opens, data \in RegistryToolsOutcomes :
                OpenTools(r, data) =>
                   RegistryIs(apiToolHandlers', ResolveTools(data))
       /\ lastEvent' = "backend.open" =>
             IF agentEnv = "configured"
             THEN apiToolHandlers' = apiToolHandlers
             ELSE RegistryIs(apiToolHandlers', <<>>)
       /\ lastEvent' \notin {"backend.open.tools", "backend.open"} =>
             apiToolHandlers' = apiToolHandlers]_vars

\* the first connection's open handler announced and registered lookup, the
\* second connection's open handler got no tools: lookup has no handler left
C30_Witness ==
    /\ lastEvent = "backend.open.tools"
    /\ ~HasApiHandler(apiToolHandlers, "lookup")
    /\ getToolHandler("lookup", AvrToolsDir, ToolsDir, apiToolHandlers).kind
          = "notfound"
    /\ \E i \in Sent("session.update") :
          /\ backendOut[i].by = 1
          /\ \E k \in 1..Len(backendOut[i].tools) :
                backendOut[i].tools[k].description = "api/lookup"
    /\ \E r \in opens : r.conn = 2 /\ r.stage # "tools"

(* ------------------------------------------------------------------ *)
(* The buffer between handlers                                          *)
(* ------------------------------------------------------------------ *)

\* C31: between any two handlers the buffer holds fewer than FrameSize
\* samples: the delta handler slices off every complete frame before it
\* returns, so a flush finds no complete frame in the buffer.
C31_BufferBelowFrame ==
    /\ Len(audioBuffer8k) < FrameSize
    /\ ExtractFrames(audioBuffer8k) = <<>>
    /\ Remainder(audioBuffer8k) = audioBuffer8k

\* two deltas of 65 and of 255 samples: the handler of the second found 320
\* samples, sent two frames and left the buffer empty
C31_Witness ==
    /\ lastEvent = "response.audio.delta"
    /\ Len(produced) = 2 * FrameSize
    /\ audioBuffer8k = <<>>
    /\ Len(clientOut) = 2
    /\ \A i \in 1..2 : clientOut[i].via = "delta"

(* ------------------------------------------------------------------ *)
(* The order of the messages on a backend connection                    *)
(* ------------------------------------------------------------------ *)

\* C32: on every backend connection session.update is the first message
\* sent: an input_audio_buffer.append or a response.create on a connection
\* has that connection's session.update before it.
C32_SessionUpdateFirst ==
    \A i \in 1..Len(backendOut) :
        backendOut[i].type \in {"input_audio_buffer.append", "response.create"}
           => \E j \in 1..(i - 1) :
                 /\ backendOut[j].type = "session.update"
                 /\ backendOut[j].conn = backendOut[i].conn

(* ------------------------------------------------------------------ *)
(* Backend connections after the client has closed                      *)
(* ------------------------------------------------------------------ *)

\* C33: once the client connection has closed no backend connection is
\* created and none opens, and the connections that exist are on their way
\* to being closed: none is left connecting or open by the close handler.
C33_NoBackendAfterClientClose ==
    [][/\ clientState = "CLOSED" =>
             /\ Len(conns') = Len(conns)
             /\ \A c \in Conns : conns[c] # "OPEN" => conns'[c] # "OPEN"
       /\ lastEvent' = "client.close" => LiveConns' = {}]_vars

(* ------------------------------------------------------------------ *)
(* The session state after cleanup                                      *)
(* ------------------------------------------------------------------ *)

\* cleanup has run and no init message was received since: cleanup alone
\* takes the client connection out of the open state, and the init handler
\* sets the session id as soon as the message is received
ReleasedSince == clientState # "OPEN" /\ sessionUuid = NULL

\* C34: once cleanup has run the session state stays released until an init
\* message is received: no other step sets the caller info or the session id
\* or puts samples into the buffer.
C34_StaysReleased ==
    [][(ReleasedSince /\ lastEvent' # "client.init") =>
          /\ sessionUuid' = NULL
          /\ callerInfo' = NoCallerInfo
          /\ audioBuffer8k' = <<>>]_vars

(* ------------------------------------------------------------------ *)
(* The connection a tool result is sent on                              *)
(* ------------------------------------------------------------------ *)

\* C35: the response.create carrying a tool result is sent on the backend
\* connection that delivered the function call, whether the handler returns
\* at once or after a suspension; it is never sent on another connection.
C35_ResultOnCallingConnection ==
    [][lastEvent' \in {"function_call.returned", "function_call.awaiting",
                       "function_call.failed"} =>
          /\ \A t \in toolCalls :
                (\E content \in CallOutcomes(t) : ToolCallResume(t, content))
                   => \A i \in 1..Len(NewBackendOut) :
                         NewBackendOut[i].conn = t.conn
          /\ \A c \in Conns, name \in ToolNames, args \in CallArgs :
                BackendFunctionCall(c, name, args)
                   => \A i \in 1..Len(NewBackendOut) :
                         NewBackendOut[i].conn = c]_vars

(* ------------------------------------------------------------------ *)
(* Announced tools and their handlers                                   *)
(* ------------------------------------------------------------------ *)

\* C36: every tool of the list loadTools builds for session.update has a
\* handler: getToolHandler of its name returns a local or a remote handler
\* and does not fail.
C36_AnnouncedToolsDispatchable ==
    probe.applied =>
        \A k \in 1..Len(probe.tools) :
            getToolHandler(probe.tools[k].name, probe.avrFiles,
                           probe.toolFiles, apiToolHandlers).kind # "notfound"


\* ---------------------------------------------------------------------
\* C37
\* ---------------------------------------------------------------------

NewClientOut == SubSeq(clientOut', Len(clientOut) + 1, Len(clientOut'))

ClientMsgTypes == {"audio", "transcript", "interruption", "error", "ready"}

====
